---------------------------- MODULE Spec2Model ----------------------------
(***************************************************************************)
(* Result persistence layer of src/prefect/results.py: the ResultStore     *)
(* coordinator (exists / read / write / locking passthroughs /             *)
(* create_result / parameters), the ResultRecord wire format and the       *)
(* lock-manager protocol it consumes.                                       *)
(*                                                                         *)
(* Callers are threads or tasks, one per holder identity.  A step of the   *)
(* model is what a caller does between two calls on a shared resource      *)
(* (lock manager, storage backend) or two awaits.                          *)
(***************************************************************************)
EXTENDS Integers, Sequences, FiniteSets, TLC

(***************************************************************************)
(* Bounds of the model.                                                    *)
(***************************************************************************)
NumKeys == 1
MaxVal == 2
MaxMint == 1
NumIdentifiers == 1

\* the callers (each its own holder identity) and the store instances
Holders == {"h1", "h2"}
Stores == {"store1", "store2"}

(***************************************************************************)
(* Keys are strings.  "" is the falsy key of `key or self.storage_key_fn()`;*)
(* NoneKey stands for Python's None in an Optional[str] field.             *)
(***************************************************************************)
EmptyKey == ""
NoneKey == "<None>"
UserKeys == {"k" \o ToString(i) : i \in 1..NumKeys}
InputKeys == UserKeys \cup {EmptyKey}
Identifiers == {"id" \o ToString(i) : i \in 1..NumIdentifiers}

\* uuid.uuid4().hex: the n-th key minted, different from every other key
DEFAULT_STORAGE_KEY_FN(n) == "uuid" \o ToString(n)

\* f"parameters/{identifier}"
ParametersPath(identifier) == "parameters/" \o identifier

(***************************************************************************)
(* Objects: Python values to persist; NoneObj is Python's None, NotSet the *)
(* NotSet sentinel.  Expirations: NoExpiration is None.                    *)
(***************************************************************************)
NoneObj == 0
NotSet == -1
Values == 1..MaxVal
NoExpiration == 0
Expirations == {NoExpiration, 1}
NoBlockId == 0

SerializerTypes == {"pickle", "json"}
PREFECT_VERSION == "prefect.__version__"

(***************************************************************************)
(* Serializer capability: dumps tags the bytes with the encoding that      *)
(* produced them; loads decodes only bytes of its own encoding.            *)
(***************************************************************************)
Dumps(serializer, obj) == [kind |-> "payload", enc |-> serializer, val |-> obj]

\* an object no serializer can encode: dumps raises on it
Unserializable == -2

\* a serializer that encodes anything
CanDumpAnything(serializer, obj) == TRUE

CanDump(serializer, obj) == obj # Unserializable

CanLoad(serializer, data) == data.kind = "payload" /\ data.enc = serializer

Loads(serializer, data) == data.val

(***************************************************************************)
(* ResultRecordMetadata and ResultRecord.                                  *)
(***************************************************************************)
ResultRecordMetadata(storage_key, expiration, serializer, storage_block_id) ==
    [storage_key |-> storage_key, expiration |-> expiration,
     serializer |-> serializer, prefect_version |-> PREFECT_VERSION,
     storage_block_id |-> storage_block_id]

\* every field at its default: storage_key None, PickleSerializer, ...
DefaultMetadata == ResultRecordMetadata(NoneKey, NoExpiration, "pickle", NoBlockId)

ResultRecord(metadata, result) == [metadata |-> metadata, result |-> result]

NoRecord == ResultRecord(DefaultMetadata, NotSet)

\* ResultRecord.serialize_result: the payload bytes
\* a serialize_result that loses the object
SerializeResultOfNone(record) == Dumps(record.metadata.serializer, NoneObj)

SerializeResult(record) == Dumps(record.metadata.serializer, record.result)

\* ResultRecordMetadata.dump_bytes / ResultRecord.serialize_metadata: a JSON
\* object of the metadata fields
DumpBytes(metadata) == [kind |-> "metadata", metadata |-> metadata]

SerializeMetadata(record) == DumpBytes(record.metadata)

\* ResultRecord.serialize: a JSON object {"metadata": {...}, "result": <payload>}
Serialize(record) ==
    [kind |-> "record", metadata |-> record.metadata, result |-> SerializeResult(record)]

Failed == [ok |-> FALSE, metadata |-> DefaultMetadata, record |-> NoRecord]

\* A legacy flat record: a JSON object with `data`, `expiration`,
\* `serializer` and `prefect_version` at its top level.  Each is a set: empty
\* when the key is absent, else holding the value.
LegacyRecord(data, expiration, serializer, prefect_version) ==
    [kind |-> "legacy", data |-> data, expiration |-> expiration,
     serializer |-> serializer, prefect_version |-> prefect_version]

\* `if "x" in value: value["metadata"]["x"] = value.pop("x")`, the metadata
\* then validated with the absent fields at their defaults
Folded(field, default) == IF field # {} THEN CHOOSE x \in field : TRUE ELSE default

\* a fold that drops the legacy expiration
MetadataOfLegacyWithoutExpiration(value) ==
    [DefaultMetadata EXCEPT
        !.serializer = Folded(value.serializer, DefaultMetadata.serializer),
        !.prefect_version = Folded(value.prefect_version, DefaultMetadata.prefect_version)]

MetadataOfLegacy(value) ==
    [DefaultMetadata EXCEPT
        !.expiration = Folded(value.expiration, DefaultMetadata.expiration),
        !.serializer = Folded(value.serializer, DefaultMetadata.serializer),
        !.prefect_version = Folded(value.prefect_version, DefaultMetadata.prefect_version)]

\* ResultRecord.coerce_old_format: `data` becomes `result`, the other legacy
\* keys move under `metadata`; without `data` there is no `result`, and what
\* is left is a document of metadata alone
CoerceOldFormat(value) ==
    IF value.kind # "legacy" THEN value
    ELSE IF value.data = {} THEN DumpBytes(MetadataOfLegacy(value))
    ELSE [kind |-> "record", metadata |-> MetadataOfLegacy(value),
          result |-> CHOOSE x \in value.data : TRUE]

\* ResultRecordMetadata.load_bytes: model_validate_json.  Bytes that are not a
\* JSON object fail; a JSON object without the metadata fields (a whole
\* record) validates with every field at its default (extra keys ignored).
\* A legacy flat record has some of the metadata fields at its top level.
LoadBytes(data) ==
    CASE data.kind = "metadata" -> [ok |-> TRUE, metadata |-> data.metadata, record |-> NoRecord]
      [] data.kind = "record" -> [ok |-> TRUE, metadata |-> DefaultMetadata, record |-> NoRecord]
      [] data.kind = "legacy" ->
            [ok |-> TRUE, metadata |-> MetadataOfLegacy(data), record |-> NoRecord]
      [] OTHER -> Failed

\* ResultRecord.deserialize: model_validate_json, then the payload (bytes or
\* str) is decoded with the serializer named in the metadata.  A JSON object
\* with no "result" (a metadata document) and non-JSON bytes fail validation.
\* The legacy flat layout is folded into the nested one before validation.
Deserialize(data) ==
    LET value == CoerceOldFormat(data) IN
    IF value.kind = "record" /\ CanLoad(value.metadata.serializer, value.result)
    THEN [ok |-> TRUE, metadata |-> value.metadata,
          record |-> ResultRecord(value.metadata,
                                  Loads(value.metadata.serializer, value.result))]
    ELSE Failed

\* ResultRecord.deserialize_from_result_and_metadata
DeserializeFromResultAndMetadata(result, metadata) ==
    LET m == LoadBytes(metadata) IN
    IF m.ok /\ CanLoad(m.metadata.serializer, result)
    THEN [ok |-> TRUE, metadata |-> m.metadata,
          record |-> ResultRecord(m.metadata, Loads(m.metadata.serializer, result))]
    ELSE Failed

(***************************************************************************)
(* Storage backends: a dict of path -> bytes behind read_path/write_path.  *)
(***************************************************************************)
NoFiles == [path \in {} |-> Failed]

WritePath(files, path, content) ==
    [q \in DOMAIN files \cup {path} |-> IF q = path THEN content ELSE files[q]]

NoStorage == "<None>"
DefaultStorage == "default"


(***************************************************************************)
(* State.                                                                  *)
(*   config           the stores' settings other than result_storage       *)
(*   result_storage   each store instance's result_storage field           *)
(*   resultFiles      content of the result storage backend                *)
(*   metadataFiles    content of the metadata storage backend              *)
(*   locks            the lock manager: key -> holder                      *)
(*   minted           number of keys storage_key_fn has produced           *)
(*   ref              the PersistedResult a caller holds                   *)
(*   pc, frame        each caller's position and the locals of its call    *)
(*   returned         the call that returned last, and its outcome         *)
(* Observers, which no action of the program reads:                        *)
(*   previous         the call that returned before `returned`, when it    *)
(*                    was a successful write or an exists                  *)
(*                    (a write of the store, or a write of the reference)  *)
(*   scenario         progress of the lock-exclusion scenario              *)
(*   settled          records that were stored under a key at a moment     *)
(*                    when the key was not locked                          *)
(***************************************************************************)
VARIABLES config, result_storage, resultFiles, metadataFiles, locks, minted,
          ref, pc, frame, returned, previous, scenario, settled

vars == <<config, result_storage, resultFiles, metadataFiles, locks, minted,
          ref, pc, frame, returned, previous, scenario, settled>>

NoStore == "<None>"
NoContent == [kind |-> "none"]

\* PersistedResult: the serialized fields and the private attributes
PersistedResult(serializer_type, storage_key, storage_block_id, expiration, serialize_to_none, cache, should_cache_object) ==
    [type |-> "reference", serializer_type |-> serializer_type,
     storage_key |-> storage_key, storage_block_id |-> storage_block_id,
     expiration |-> expiration, serialize_to_none |-> serialize_to_none,
     persisted |-> FALSE, should_cache_object |-> should_cache_object,
     cache |-> cache, storage_block |-> DefaultStorage,
     serializer |-> serializer_type]

NoReference ==
    [type |-> "none", serializer_type |-> "pickle", storage_key |-> NoneKey,
     storage_block_id |-> NoBlockId, expiration |-> NoExpiration,
     serialize_to_none |-> FALSE, persisted |-> FALSE,
     should_cache_object |-> FALSE, cache |-> NotSet,
     storage_block |-> NoStorage, serializer |-> "pickle"]

\* the fields of a ResultStore, as model_copy copies them
Settings(storage, serializer, persist_result, cache_result_in_memory, metadata_storage, lock_manager, storage_key_fn) ==
    [result_storage |-> storage, serializer |-> serializer,
     persist_result |-> persist_result,
     cache_result_in_memory |-> cache_result_in_memory,
     metadata_storage |-> metadata_storage, lock_manager |-> lock_manager,
     storage_key_fn |-> storage_key_fn]

NoSettings == Settings(NoStorage, "pickle", FALSE, FALSE, FALSE, FALSE, "<None>")

\* the settings of a flow or task, none of them given
NoGiven ==
    [result_storage |-> {}, result_serializer |-> {}, persist_result |-> {},
     cache_result_in_memory |-> {}]

Frame(op, store, key, record) ==
    [op |-> op, store |-> store, key |-> key, record |-> record,
     metadata_content |-> NoContent, given |-> NoGiven, waited |-> FALSE,
     fault |-> FALSE, accesses |-> {}]

IdleFrame == Frame("none", NoStore, NoneKey, NoRecord)

NoCaller == "<None>"

\* the outcome of the call in frame f
Return(f, status, flag, record, reference) ==
    [caller |-> NoCaller, op |-> f.op, store |-> f.store, key |-> f.key,
     written |-> f.record,
     status |-> status, flag |-> flag, record |-> record,
     reference |-> reference, given |-> f.given, updated |-> NoSettings,
     waited |-> f.waited, fault |-> f.fault,
     accesses |-> f.accesses]

NoReturn == Return(IdleFrame, "none", FALSE, NoRecord, NoReference)

Access(storage, op, path) == [storage |-> storage, op |-> op, path |-> path]

Accessed(f, storage, op, path) ==
    [f EXCEPT !.accesses = @ \cup {Access(storage, op, path)}]

Finish(p, r) ==
    /\ pc' = [pc EXCEPT ![p] = "idle"]
    /\ frame' = [frame EXCEPT ![p] = IdleFrame]
    /\ returned' = [r EXCEPT !.caller = p]

Goto(p, label, f) ==
    /\ pc' = [pc EXCEPT ![p] = label]
    /\ frame' = [frame EXCEPT ![p] = f]
    /\ UNCHANGED returned

(***************************************************************************)
(* Lock manager protocol (prefect.locking.protocol.LockManager).           *)
(***************************************************************************)
IsLocked(key) == key \in DOMAIN locks

IsLockHolder(key, holder) == key \in DOMAIN locks /\ locks[key] = holder

\* acquire_lock(key, holder, timeout): the lock manager's state afterwards
LockAcquired(key, holder) ==
    [q \in DOMAIN locks \cup {key} |-> IF q = key THEN holder ELSE locks[q]]

\* release_lock(key, holder): the lock manager's state afterwards
LockReleased(key, holder) ==
    IF IsLockHolder(key, holder)
    THEN [q \in DOMAIN locks \ {key} |-> locks[q]]
    ELSE locks

(***************************************************************************)
(* ResultStore.acquire_lock / aacquire_lock.  timeout = FALSE is           *)
(* timeout=None: the call does not return while another holder has the key.*)
(***************************************************************************)
AcquireLock(p, key, timeout) ==
    /\ pc[p] = "idle"
    /\ LET f == Frame("acquire_lock", NoStore, key, NoRecord) IN
       IF ~config.lock_manager
       THEN /\ Finish(p, Return(f, "ConfigurationError", FALSE, NoRecord, NoReference))
            /\ UNCHANGED locks
       ELSE IF ~IsLocked(key) \/ IsLockHolder(key, p)
       THEN /\ locks' = LockAcquired(key, p)
            /\ Finish(p, Return(f, "ok", TRUE, NoRecord, NoReference))
       ELSE /\ timeout
            /\ UNCHANGED locks
            /\ Finish(p, Return(f, "ok", FALSE, NoRecord, NoReference))
    /\ UNCHANGED <<config, result_storage, resultFiles, metadataFiles, minted>>

\* ResultStore.release_lock
ReleaseLock(p, key) ==
    /\ pc[p] = "idle"
    /\ LET f == Frame("release_lock", NoStore, key, NoRecord) IN
       IF ~config.lock_manager
       THEN /\ Finish(p, Return(f, "ConfigurationError", FALSE, NoRecord, NoReference))
            /\ UNCHANGED locks
       ELSE /\ locks' = LockReleased(key, p)
            /\ Finish(p, Return(f, "ok", IsLockHolder(key, p), NoRecord, NoReference))
    /\ UNCHANGED <<config, result_storage, resultFiles, metadataFiles, minted>>

\* ResultStore.aacquire_lock: acquire_lock's asynchronous twin
AAcquireLock(p, key, timeout) ==
    /\ pc[p] = "idle"
    /\ LET f == Frame("aacquire_lock", NoStore, key, NoRecord) IN
       IF ~config.lock_manager
       THEN /\ Finish(p, Return(f, "ConfigurationError", FALSE, NoRecord, NoReference))
            /\ UNCHANGED locks
       ELSE IF ~IsLocked(key) \/ IsLockHolder(key, p)
       THEN /\ locks' = LockAcquired(key, p)
            /\ Finish(p, Return(f, "ok", TRUE, NoRecord, NoReference))
       ELSE /\ timeout
            /\ UNCHANGED locks
            /\ Finish(p, Return(f, "ok", FALSE, NoRecord, NoReference))
    /\ UNCHANGED <<config, result_storage, resultFiles, metadataFiles, minted>>

\* an is_locked that answers False on a store without a lock manager
StoreIsLockedUnconfigured(p, key) ==
    /\ pc[p] = "idle"
    /\ LET f == Frame("is_locked", NoStore, key, NoRecord) IN
       Finish(p, Return(f, "ok", config.lock_manager /\ IsLocked(key), NoRecord,
                        NoReference))
    /\ UNCHANGED <<config, result_storage, resultFiles, metadataFiles, locks, minted>>

\* ResultStore.is_locked
StoreIsLocked(p, key) ==
    /\ pc[p] = "idle"
    /\ LET f == Frame("is_locked", NoStore, key, NoRecord) IN
       IF ~config.lock_manager
       THEN Finish(p, Return(f, "ConfigurationError", FALSE, NoRecord, NoReference))
       ELSE Finish(p, Return(f, "ok", IsLocked(key), NoRecord, NoReference))
    /\ UNCHANGED <<config, result_storage, resultFiles, metadataFiles, locks, minted>>

\* ResultStore.is_lock_holder
StoreIsLockHolder(p, key, holder) ==
    /\ pc[p] = "idle"
    /\ LET f == Frame("is_lock_holder", NoStore, key, NoRecord) IN
       IF ~config.lock_manager
       THEN Finish(p, Return(f, "ConfigurationError", FALSE, NoRecord, NoReference))
       ELSE Finish(p, Return(f, "ok", IsLockHolder(key, holder), NoRecord, NoReference))
    /\ UNCHANGED <<config, result_storage, resultFiles, metadataFiles, locks, minted>>

\* ResultStore.wait_for_lock and await_for_lock (op names which): True once
\* the key is free, False when the timeout runs out first; timeout = FALSE is
\* timeout=None
WaitForLock(p, op, key, timeout) ==
    /\ pc[p] = "idle"
    /\ LET f == Frame(op, NoStore, key, NoRecord) IN
       IF ~config.lock_manager
       THEN Finish(p, Return(f, "ConfigurationError", FALSE, NoRecord, NoReference))
       ELSE IF ~IsLocked(key)
       THEN Finish(p, Return(f, "ok", TRUE, NoRecord, NoReference))
       ELSE /\ timeout
            /\ Finish(p, Return(f, "ok", FALSE, NoRecord, NoReference))
    /\ UNCHANGED <<config, result_storage, resultFiles, metadataFiles, locks, minted>>

(***************************************************************************)
(* ResultStore.supports_isolation_level.                                   *)
(***************************************************************************)
IsolationLevels == {"READ_COMMITTED", "SERIALIZABLE"}

\* what a caller may pass: a level, or anything else
Levels == IsolationLevels \cup {"<other>"}

\* a store that claims SERIALIZABLE whether or not it can lock
SupportsAnyIsolationLevel(level) ==
    IF level = "READ_COMMITTED" THEN [status |-> "ok", flag |-> TRUE]
    ELSE IF level = "SERIALIZABLE" THEN [status |-> "ok", flag |-> TRUE]
    ELSE [status |-> "ValueError", flag |-> FALSE]

SupportsIsolationLevelOutcome(level) ==
    IF level = "READ_COMMITTED" THEN [status |-> "ok", flag |-> TRUE]
    ELSE IF level = "SERIALIZABLE" THEN [status |-> "ok", flag |-> config.lock_manager]
    ELSE [status |-> "ValueError", flag |-> FALSE]

\* the level asked about is kept where other calls keep their key
SupportsIsolationLevel(p, store, level) ==
    /\ pc[p] = "idle"
    /\ LET out == SupportsIsolationLevelOutcome(level)
           f == Frame("supports_isolation_level", store, level, NoRecord)
       IN Finish(p, Return(f, out.status, out.flag, NoRecord, NoReference))
    /\ UNCHANGED <<config, result_storage, resultFiles, metadataFiles, locks, minted>>

(***************************************************************************)
(* ResultStore.create_result_record: `key or self.storage_key_fn()`; n is  *)
(* the number of the key storage_key_fn mints when it is called.           *)
(***************************************************************************)
CreateResultRecord(key, obj, expiration, n) ==
    ResultRecord(
        ResultRecordMetadata(
            IF key # EmptyKey THEN key ELSE DEFAULT_STORAGE_KEY_FN(n),
            expiration, config.serializer, NoBlockId),
        obj)

\* a persist that never looks at the lock
WriteIgnoresLocks(key, holder) == FALSE

\* _persist_result_record's guard: locked, and not by the caller
LockedByAnother(key, holder) ==
    config.lock_manager /\ IsLocked(key) /\ ~IsLockHolder(key, holder)

\* `if self.result_storage is None:` on entry to the storage part of a call
AfterResolve(store, resolve, next) ==
    IF result_storage[store] = NoStorage THEN resolve ELSE next

(***************************************************************************)
(* ResultStore.write / awrite / persist_result_record, up to the lock      *)
(* check of _persist_result_record.                                        *)
(***************************************************************************)
Write(p, store, key, obj, expiration) ==
    /\ pc[p] = "idle"
    /\ key = EmptyKey => minted < MaxMint
    /\ LET record == CreateResultRecord(key, obj, expiration, minted + 1)
           f == Frame("write", store, key, record)
       IN
       /\ minted' = IF key = EmptyKey THEN minted + 1 ELSE minted
       /\ IF LockedByAnother(record.metadata.storage_key, p)
          THEN Finish(p, Return(f, "RuntimeError", FALSE, NoRecord, NoReference))
          ELSE Goto(p, AfterResolve(store, "persist_resolve", "persist_result"), f)
    /\ UNCHANGED <<config, result_storage, resultFiles, metadataFiles, locks>>

\* `self.result_storage = await get_default_result_storage()`
ResolveNext(label) ==
    CASE label = "persist_resolve" -> "persist_result"
      [] label = "read_resolve" -> "read_storage"
      [] label = "create_resolve" -> "create_reference"

ResolveDefaultStorage(p) ==
    /\ pc[p] \in {"persist_resolve", "read_resolve", "create_resolve"}
    /\ result_storage' = [result_storage EXCEPT ![frame[p].store] = DefaultStorage]
    /\ Goto(p, ResolveNext(pc[p]), frame[p])
    /\ UNCHANGED <<config, resultFiles, metadataFiles, locks, minted>>

\* a persist whose first step leaves result storage alone
PersistResultSkippingPayload(p) ==
    /\ pc[p] = "persist_result"
    /\ LET record == frame[p].record
           path == record.metadata.storage_key
           f == Accessed(frame[p], "result", "write", path)
       IN
       IF ~CanDump(record.metadata.serializer, record.result)
       THEN /\ UNCHANGED resultFiles
            /\ Finish(p, Return(frame[p], "SerializationError", FALSE, NoRecord,
                                NoReference))
       ELSE IF config.metadata_storage
       THEN /\ resultFiles' = resultFiles
            /\ Goto(p, "persist_metadata", f)
       ELSE /\ resultFiles' = WritePath(resultFiles, path, Serialize(record))
            /\ Finish(p, Return(f, "ok", FALSE, NoRecord, NoReference))
    /\ UNCHANGED <<config, result_storage, metadataFiles, locks, minted>>

\* _persist_result_record: the write to result storage (payload alone when a
\* metadata storage is configured, the whole record otherwise); the content
\* is serialized first, and serialize_result raises SerializationError when
\* the serializer cannot encode the object
PersistResult(p) ==
    /\ pc[p] = "persist_result"
    /\ LET record == frame[p].record
           path == record.metadata.storage_key
           f == Accessed(frame[p], "result", "write", path)
       IN
       IF ~CanDump(record.metadata.serializer, record.result)
       THEN /\ UNCHANGED resultFiles
            /\ Finish(p, Return(frame[p], "SerializationError", FALSE, NoRecord,
                                NoReference))
       ELSE IF config.metadata_storage
       THEN /\ resultFiles' = WritePath(resultFiles, path, SerializeResult(record))
            /\ Goto(p, "persist_metadata", f)
       ELSE /\ resultFiles' = WritePath(resultFiles, path, Serialize(record))
            /\ Finish(p, Return(f, "ok", FALSE, NoRecord, NoReference))
    /\ UNCHANGED <<config, result_storage, metadataFiles, locks, minted>>

\* _persist_result_record: the write to metadata storage
PersistMetadata(p) ==
    /\ pc[p] = "persist_metadata"
    /\ LET record == frame[p].record
           path == record.metadata.storage_key
           f == Accessed(frame[p], "metadata", "write", path)
       IN
       /\ metadataFiles' = WritePath(metadataFiles, path, SerializeMetadata(record))
       /\ Finish(p, Return(f, "ok", FALSE, NoRecord, NoReference))
    /\ UNCHANGED <<config, result_storage, resultFiles, locks, minted>>

\* _persist_result_record: a write_path that raises; nothing catches it and
\* nothing written before it is undone
WritePathRaises(p) ==
    /\ pc[p] \in {"persist_result", "persist_metadata"}
    /\ Finish(p, Return(frame[p], "WriteError", FALSE, NoRecord, NoReference))
    /\ UNCHANGED <<config, result_storage, resultFiles, metadataFiles, locks, minted>>

(***************************************************************************)
(* ResultStore.read / aread.                                               *)
(***************************************************************************)
\* a read that waits for the lock even when its caller holds it
WaitsEvenAsHolder(key, holder) == config.lock_manager

\* _read's guard: wait for the lock unless the caller holds it
MustWait(key, holder) == config.lock_manager /\ ~IsLockHolder(key, holder)

Read(p, store, key) ==
    /\ pc[p] = "idle"
    /\ LET f == Frame("read", store, key, NoRecord) IN
       IF MustWait(key, p)
       THEN Goto(p, "read_wait", f)
       ELSE Goto(p, AfterResolve(store, "read_resolve", "read_storage"), f)
    /\ UNCHANGED <<config, result_storage, resultFiles, metadataFiles, locks, minted>>

\* a wait that takes the lock for the reader once the key is free
AwaitForLockTakingIt(p) ==
    /\ pc[p] = "read_wait"
    /\ ~IsLocked(frame[p].key)
    /\ locks' = LockAcquired(frame[p].key, p)
    /\ Goto(p, AfterResolve(frame[p].store, "read_resolve", "read_storage"),
            [frame[p] EXCEPT !.waited = TRUE])
    /\ UNCHANGED <<config, result_storage, resultFiles, metadataFiles, minted>>

\* `await self.await_for_lock(key)` with no timeout: returns once the key is free
AwaitForLock(p) ==
    /\ pc[p] = "read_wait"
    /\ ~IsLocked(frame[p].key)
    /\ Goto(p, AfterResolve(frame[p].store, "read_resolve", "read_storage"),
            [frame[p] EXCEPT !.waited = TRUE])
    /\ UNCHANGED <<config, result_storage, resultFiles, metadataFiles, locks, minted>>

\* _read: the first read_path (metadata storage when configured, else the
\* whole record from result storage)
ReadStorage(p) ==
    /\ pc[p] = "read_storage"
    /\ LET key == frame[p].key IN
       IF config.metadata_storage
       THEN LET f == Accessed(frame[p], "metadata", "read", key) IN
            IF key \notin DOMAIN metadataFiles
            THEN Finish(p, Return(f, "ReadError", FALSE, NoRecord, NoReference))
            ELSE LET m == LoadBytes(metadataFiles[key]) IN
                 IF ~m.ok
                 THEN Finish(p, Return(f, "ValidationError", FALSE, NoRecord, NoReference))
                 ELSE IF m.metadata.storage_key = NoneKey
                 THEN Finish(p, Return(f, "AssertionError", FALSE, NoRecord, NoReference))
                 ELSE Goto(p, "read_result",
                           [f EXCEPT !.metadata_content = metadataFiles[key]])
       ELSE LET f == Accessed(frame[p], "result", "read", key) IN
            IF key \notin DOMAIN resultFiles
            THEN Finish(p, Return(f, "ReadError", FALSE, NoRecord, NoReference))
            ELSE LET d == Deserialize(resultFiles[key]) IN
                 IF ~d.ok
                 THEN Finish(p, Return(f, "ValidationError", FALSE, NoRecord, NoReference))
                 ELSE Finish(p, Return(f, "ok", FALSE, d.record, NoReference))
    /\ UNCHANGED <<config, result_storage, resultFiles, metadataFiles, locks, minted>>

\* a _read that fetches the payload under the key it was asked for
ReadResultUnderKey(p) ==
    /\ pc[p] = "read_result"
    /\ LET content == frame[p].metadata_content
           path == frame[p].key
           f == Accessed(frame[p], "result", "read", path)
       IN
       IF path \notin DOMAIN resultFiles
       THEN Finish(p, Return(f, "ReadError", FALSE, NoRecord, NoReference))
       ELSE LET d == DeserializeFromResultAndMetadata(resultFiles[path], content) IN
            IF ~d.ok
            THEN Finish(p, Return(f, "ValidationError", FALSE, NoRecord, NoReference))
            ELSE Finish(p, Return(f, "ok", FALSE, d.record, NoReference))
    /\ UNCHANGED <<config, result_storage, resultFiles, metadataFiles, locks, minted>>

\* _read: the payload, from result storage under metadata.storage_key
ReadResult(p) ==
    /\ pc[p] = "read_result"
    /\ LET content == frame[p].metadata_content
           path == LoadBytes(content).metadata.storage_key
           f == Accessed(frame[p], "result", "read", path)
       IN
       IF path \notin DOMAIN resultFiles
       THEN Finish(p, Return(f, "ReadError", FALSE, NoRecord, NoReference))
       ELSE LET d == DeserializeFromResultAndMetadata(resultFiles[path], content) IN
            IF ~d.ok
            THEN Finish(p, Return(f, "ValidationError", FALSE, NoRecord, NoReference))
            ELSE Finish(p, Return(f, "ok", FALSE, d.record, NoReference))
    /\ UNCHANGED <<config, result_storage, resultFiles, metadataFiles, locks, minted>>

(***************************************************************************)
(* ResultStore.exists / aexists (_exists).  fault: the backend's read_path *)
(* raises for a reason other than a missing path.  A store whose           *)
(* result_storage is None raises AttributeError on `.read_path`, which the *)
(* `except Exception` swallows like any other failure.                     *)
(***************************************************************************)
\* an _exists without the `except Exception`
ExistsOutcomePropagating(store, key, fault) ==
    IF config.metadata_storage
    THEN [status |-> IF fault THEN "Exception" ELSE "ok",
          flag |-> ~fault /\ key \in DOMAIN metadataFiles,
          accesses |-> {Access("metadata", "read", key)}]
    ELSE IF result_storage[store] = NoStorage
    THEN [status |-> "AttributeError", flag |-> FALSE, accesses |-> {}]
    ELSE [status |-> IF fault THEN "Exception" ELSE "ok",
          flag |-> ~fault /\ key \in DOMAIN resultFiles,
          accesses |-> {Access("result", "read", key)}]

\* an _exists that also wants the payload when metadata is stored apart
ExistsOutcomeReadingPayload(store, key, fault) ==
    IF config.metadata_storage
    THEN [status |-> "ok",
          flag |-> ~fault /\ key \in DOMAIN metadataFiles /\ key \in DOMAIN resultFiles,
          accesses |-> {Access("metadata", "read", key), Access("result", "read", key)}]
    ELSE IF result_storage[store] = NoStorage
    THEN [status |-> "ok", flag |-> FALSE, accesses |-> {}]
    ELSE [status |-> "ok", flag |-> ~fault /\ key \in DOMAIN resultFiles,
          accesses |-> {Access("result", "read", key)}]

ExistsOutcome(store, key, fault) ==
    IF config.metadata_storage
    THEN [status |-> "ok", flag |-> ~fault /\ key \in DOMAIN metadataFiles,
          accesses |-> {Access("metadata", "read", key)}]
    ELSE IF result_storage[store] = NoStorage
    THEN [status |-> "ok", flag |-> FALSE, accesses |-> {}]
    ELSE [status |-> "ok", flag |-> ~fault /\ key \in DOMAIN resultFiles,
          accesses |-> {Access("result", "read", key)}]

Exists(p, store, key, fault) ==
    /\ pc[p] = "idle"
    /\ LET out == ExistsOutcome(store, key, fault)
           f == [Frame("exists", store, key, NoRecord) EXCEPT
                    !.accesses = out.accesses, !.fault = fault]
       IN Finish(p, Return(f, out.status, out.flag, NoRecord, NoReference))
    /\ UNCHANGED <<config, result_storage, resultFiles, metadataFiles, locks, minted>>

(***************************************************************************)
(* ResultStore.create_result and PersistedResult.create.                   *)
(***************************************************************************)
\* PersistedResult._infer_path on a LocalFileSystem: the absolute path of key
InferPath(storage_block, key) == "/storage/" \o key

CreateResult(p, store, obj, key, expiration) ==
    /\ pc[p] = "idle"
    /\ key = EmptyKey => minted < MaxMint
    /\ Goto(p, AfterResolve(store, "create_resolve", "create_reference"),
            Frame("create_result", store, key,
                  ResultRecord(ResultRecordMetadata(key, expiration, config.serializer,
                                                    NoBlockId), obj)))
    /\ UNCHANGED <<config, result_storage, resultFiles, metadataFiles, locks, minted>>

PersistedResultCreate(p) ==
    /\ pc[p] = "create_reference"
    /\ LET f == frame[p]
           obj == f.record.result
           should_cache_object == config.cache_result_in_memory \/ obj = NoneObj
           key == IF f.key # EmptyKey THEN f.key ELSE DEFAULT_STORAGE_KEY_FN(minted + 1)
           storage_key == InferPath(result_storage[f.store], key)
       IN
       /\ minted' = IF f.key = EmptyKey THEN minted + 1 ELSE minted
       /\ Finish(p, Return(f, "ok", FALSE, NoRecord,
                           PersistedResult(config.serializer, storage_key, NoBlockId,
                                           f.record.metadata.expiration,
                                           ~config.persist_result, obj,
                                           should_cache_object)))
    /\ UNCHANGED <<config, result_storage, resultFiles, metadataFiles, locks>>

(***************************************************************************)
(* PersistedResult.write and PersistedResult.get, on the reference `ref`.  *)
(* Each builds a ResultStore of its own around the reference's storage     *)
(* block: no metadata storage, no lock manager, so the record is written   *)
(* and read whole, under the reference's storage_key.                      *)
(***************************************************************************)
NoSerializer == "<None>"

\* a has_cached_object that always says yes
HasCachedObjectAlways(r) == TRUE

\* BaseResult.has_cached_object
HasCachedObject(r) == r.cache # NotSet

\* a _cache_object that forgets the object
CacheObjectDropped(r, obj, storage_block, serializer) ==
    [r EXCEPT !.cache = NotSet, !.storage_block = storage_block, !.serializer = serializer]

\* PersistedResult._cache_object, whose storage_block and serializer
\* arguments default to None
CacheObject(r, obj, storage_block, serializer) ==
    [r EXCEPT !.cache = obj, !.storage_block = storage_block, !.serializer = serializer]

\* PersistedResult._get_storage_block: the block held, else the default one
GetStorageBlock(r) ==
    IF r.storage_block # NoStorage THEN r ELSE [r EXCEPT !.storage_block = DefaultStorage]

\* PersistedResult.serialize_model: None, or the public fields
NoneJson == [type |-> "null"]

\* a serialize_model that writes the fields out whatever serialize_to_none says
SerializeModelWithFields(r) ==
    [type |-> r.type, serializer_type |-> r.serializer_type,
     storage_key |-> r.storage_key, storage_block_id |-> r.storage_block_id,
     expiration |-> r.expiration, serialize_to_none |-> r.serialize_to_none]

SerializeModel(r) ==
    IF r.serialize_to_none
    THEN NoneJson
    ELSE [type |-> r.type, serializer_type |-> r.serializer_type,
          storage_key |-> r.storage_key, storage_block_id |-> r.storage_block_id,
          expiration |-> r.expiration, serialize_to_none |-> r.serialize_to_none]

\* an equality that also compares the cached objects
PersistedResultEqWithCache(a, b) ==
    /\ a.type = b.type
    /\ a.serializer_type = b.serializer_type
    /\ a.storage_key = b.storage_key
    /\ a.storage_block_id = b.storage_block_id
    /\ a.expiration = b.expiration
    /\ a.cache = b.cache

\* PersistedResult.__eq__, between two PersistedResult values
PersistedResultEq(a, b) ==
    /\ a.type = b.type
    /\ a.serializer_type = b.serializer_type
    /\ a.storage_key = b.storage_key
    /\ a.storage_block_id = b.storage_block_id
    /\ a.expiration = b.expiration

\* a PersistedResult validated from its serialized form: the public fields as
\* serialized, the private attributes at their defaults
ModelValidate(json) ==
    [PersistedResult(json.serializer_type, json.storage_key, json.storage_block_id,
                     json.expiration, json.serialize_to_none, NotSet, TRUE)
       EXCEPT !.storage_block = NoStorage, !.serializer = NoSerializer]

\* the caller replaces the reference it holds by one that went through
\* serialization; a reference that serializes to None yields no reference
ReloadReference(p) ==
    /\ pc[p] = "idle"
    /\ ref.type = "reference"
    /\ SerializeModel(ref) # NoneJson
    /\ ref' = ModelValidate(SerializeModel(ref))
    /\ UNCHANGED <<config, result_storage, resultFiles, metadataFiles, locks, minted,
                   pc, frame, returned>>

\* what get returns: the object alone
Returning(obj) == ResultRecord(DefaultMetadata, obj)

\* a write that does not look at the flags that make it a no-op
AlreadyWrittenNever(r) == FALSE

\* write's first test: `if self._persisted or self.serialize_to_none: return`
AlreadyWritten(r) == r.persisted \/ r.serialize_to_none

\* write, up to `await self._get_storage_block()`
PersistedResultWrite(p, obj) ==
    /\ pc[p] = "idle"
    /\ ref.type = "reference"
    /\ LET f == Frame("result_write", NoStore, ref.storage_key, NoRecord) IN
       IF AlreadyWritten(ref)
       THEN Finish(p, Return(f, "ok", FALSE, NoRecord, NoReference))
       ELSE IF obj = NotSet /\ ~HasCachedObject(ref)
       THEN Finish(p, Return(f, "ValueError", FALSE, NoRecord, NoReference))
       ELSE Goto(p, "result_persist",
                 [f EXCEPT !.record =
                     ResultRecord(DefaultMetadata, IF obj # NotSet THEN obj ELSE ref.cache)])
    /\ UNCHANGED <<config, result_storage, resultFiles, metadataFiles, locks, minted, ref>>

\* an ad-hoc store that is given the lock manager of the store that created
\* the reference
AdHocLockManagerOfCreator(r) == config.lock_manager

\* the lock manager of the ResultStore that write and get build for reference
\* r: `ResultStore(result_storage=storage_block, ...)` leaves it None
AdHocLockManager(r) == FALSE

\* the ad-hoc store's _persist_result_record guard and _read guard
AdHocLockedByAnother(r, holder) ==
    AdHocLockManager(r) /\ IsLocked(r.storage_key) /\ ~IsLockHolder(r.storage_key, holder)

\* a write that always drops the cached object
KeepsCacheNever(r) == FALSE

\* write's last test: `if not self._should_cache_object: self._cache = NotSet`
KeepsCache(r) == r.should_cache_object

\* write, from the storage block on: the record goes to the block under
\* storage_key through the ad-hoc store (which raises RuntimeError when it
\* has a lock manager and the key is locked by another holder), then
\* _persisted is set and the cache dropped unless kept; an error from awrite
\* leaves both as they were
PersistedResultPersist(p) ==
    /\ pc[p] = "result_persist"
    /\ LET r == GetStorageBlock(ref)
           serializer == IF r.serializer # NoSerializer THEN r.serializer
                         ELSE r.serializer_type
           record == ResultRecord(
                        ResultRecordMetadata(r.storage_key, r.expiration, serializer,
                                             NoBlockId),
                        frame[p].record.result)
           f == Accessed([frame[p] EXCEPT !.record = record],
                         "result", "write", r.storage_key)
       IN
       IF AdHocLockedByAnother(r, p)
       THEN /\ UNCHANGED resultFiles
            /\ ref' = r
            /\ Finish(p, Return([frame[p] EXCEPT !.record = record],
                                "RuntimeError", FALSE, NoRecord, NoReference))
       ELSE IF ~CanDump(serializer, record.result)
       THEN /\ UNCHANGED resultFiles
            /\ ref' = r
            /\ Finish(p, Return([frame[p] EXCEPT !.record = record],
                                "SerializationError", FALSE, NoRecord, NoReference))
       ELSE /\ resultFiles' = WritePath(resultFiles, r.storage_key, Serialize(record))
            /\ ref' = [r EXCEPT !.persisted = TRUE,
                                !.cache = IF KeepsCache(r) THEN @ ELSE NotSet]
            /\ Finish(p, Return(f, "ok", FALSE, NoRecord, NoReference))
    /\ UNCHANGED <<config, result_storage, metadataFiles, locks, minted>>

\* a get that never uses the cached object
UsesCacheNever(r, ignore_cache) == FALSE

\* get's first test: `if self.has_cached_object() and not ignore_cache`
UsesCache(r, ignore_cache) == HasCachedObject(r) /\ ~ignore_cache

\* get, up to `await self._get_storage_block()`
PersistedResultGet(p, ignore_cache) ==
    /\ pc[p] = "idle"
    /\ ref.type = "reference"
    /\ LET f == Frame("result_get", NoStore, ref.storage_key, NoRecord) IN
       IF UsesCache(ref, ignore_cache)
       THEN Finish(p, Return(f, "ok", FALSE, Returning(ref.cache), NoReference))
       ELSE Goto(p, "result_read", f)
    /\ UNCHANGED <<config, result_storage, resultFiles, metadataFiles, locks, minted, ref>>

\* a get that caches what it read whatever the reference says
CachesReadAlways(r) == TRUE

\* get's last test: `if self._should_cache_object: self._cache_object(...)`
CachesRead(r) == r.should_cache_object

\* get, from the storage block on: the record is read from the block under
\* storage_key through the ad-hoc store (which waits while it has a lock
\* manager and the key is locked by another holder), its expiration copied,
\* its result cached when caching is on
PersistedResultRead(p) ==
    /\ pc[p] = "result_read"
    /\ LET r == GetStorageBlock(ref)
           path == r.storage_key
           f == Accessed(frame[p], "result", "read", path)
       IN
       IF AdHocLockedByAnother(r, p)
       THEN /\ ref' = r
            /\ Goto(p, "result_read", [frame[p] EXCEPT !.waited = TRUE])
       ELSE IF path \notin DOMAIN resultFiles
       THEN /\ ref' = r
            /\ Finish(p, Return(f, "ReadError", FALSE, NoRecord, NoReference))
       ELSE LET d == Deserialize(resultFiles[path]) IN
            IF ~d.ok
            THEN /\ ref' = r
                 /\ Finish(p, Return(f, "ValidationError", FALSE, NoRecord, NoReference))
            ELSE /\ ref' = LET e == [r EXCEPT !.expiration = d.record.metadata.expiration]
                           IN IF CachesRead(e)
                              THEN CacheObject(e, d.record.result, NoStorage, NoSerializer)
                              ELSE e
                 /\ Finish(p, Return(f, "ok", FALSE, Returning(d.record.result),
                                     NoReference))
    /\ UNCHANGED <<config, result_storage, resultFiles, metadataFiles, locks, minted>>

(***************************************************************************)
(* ResultStore.update_for_flow / update_for_task.  A flow's or task's      *)
(* setting is a set: empty for None, else holding the one value given.     *)
(***************************************************************************)
Optional(S) == {{}} \cup {{x} : x \in S}

\* a result_storage a flow, a task or the store's constructor is given
GivenStorages == {"given"}

\* resolve_result_storage: the block a given result_storage stands for
ResolveResultStorage(storage) == "block:" \o storage

\* the store's fields
StoreSettings(store) ==
    Settings(result_storage[store], config.serializer, config.persist_result,
             config.cache_result_in_memory, config.metadata_storage,
             config.lock_manager, "DEFAULT_STORAGE_KEY_FN")

\* an update that ignores what the flow or task sets
OverrideNever(setting, current) == current

\* `if flow.x is not None: update["x"] = flow.x`, then model_copy(update)
Override(setting, current) ==
    IF setting # {} THEN CHOOSE x \in setting : TRUE ELSE current

\* partial(_format_user_supplied_storage_key, task.result_storage_key)
FormatUserSuppliedStorageKey(key) == "format:" \o key

\* the update dict applied to a copy of the store; the default storage is
\* filled in when neither the store nor the update has a result storage
Updated(current, given, storage_key_fn) ==
    LET storage == Override({ResolveResultStorage(x) : x \in given.result_storage},
                            current.result_storage)
    IN Settings(IF storage = NoStorage THEN DefaultStorage ELSE storage,
                Override(given.result_serializer, current.serializer),
                Override(given.persist_result, current.persist_result),
                Override(given.cache_result_in_memory, current.cache_result_in_memory),
                current.metadata_storage, current.lock_manager,
                Override(storage_key_fn, current.storage_key_fn))

Flows ==
    [result_storage : Optional(GivenStorages), result_serializer : Optional(SerializerTypes),
     persist_result : Optional(BOOLEAN), cache_result_in_memory : Optional(BOOLEAN)]

Tasks ==
    [result_storage : Optional(GivenStorages), result_serializer : Optional(SerializerTypes),
     persist_result : Optional(BOOLEAN), cache_result_in_memory : Optional(BOOLEAN),
     result_storage_key : Optional(UserKeys)]

UpdateForFlow(p, store, flow) ==
    /\ pc[p] = "idle"
    /\ LET f == [Frame("update_for_flow", store, NoneKey, NoRecord) EXCEPT !.given = flow] IN
       Finish(p, [Return(f, "ok", FALSE, NoRecord, NoReference) EXCEPT
                     !.updated = Updated(StoreSettings(store), flow, {})])
    /\ UNCHANGED <<config, result_storage, resultFiles, metadataFiles, locks, minted>>

UpdateForTask(p, store, task) ==
    /\ pc[p] = "idle"
    /\ LET f == [Frame("update_for_task", store, NoneKey, NoRecord) EXCEPT !.given = task] IN
       Finish(p, [Return(f, "ok", FALSE, NoRecord, NoReference) EXCEPT
                     !.updated =
                        Updated(StoreSettings(store), task,
                                {FormatUserSuppliedStorageKey(k) :
                                   k \in task.result_storage_key})])
    /\ UNCHANGED <<config, result_storage, resultFiles, metadataFiles, locks, minted>>

(***************************************************************************)
(* ResultStore.store_parameters / read_parameters: no lazy resolution of   *)
(* result_storage, no lock check.                                          *)
(***************************************************************************)
StoreParameters(p, store, identifier, parameters) ==
    /\ pc[p] = "idle"
    /\ LET record == ResultRecord(ResultRecordMetadata(identifier, NoExpiration,
                                                       config.serializer, NoBlockId),
                                  parameters)
           path == ParametersPath(identifier)
           f == Frame("store_parameters", store, identifier, record)
       IN
       IF result_storage[store] = NoStorage
       THEN /\ Finish(p, Return(f, "AttributeError", FALSE, NoRecord, NoReference))
            /\ UNCHANGED resultFiles
       ELSE /\ resultFiles' = WritePath(resultFiles, path, Serialize(record))
            /\ Finish(p, Return(Accessed(f, "result", "write", path), "ok", FALSE,
                                NoRecord, NoReference))
    /\ UNCHANGED <<config, result_storage, metadataFiles, locks, minted>>

ReadParameters(p, store, identifier) ==
    /\ pc[p] = "idle"
    /\ LET path == ParametersPath(identifier)
           f == Frame("read_parameters", store, identifier, NoRecord)
           g == Accessed(f, "result", "read", path)
       IN
       IF result_storage[store] = NoStorage
       THEN Finish(p, Return(f, "AttributeError", FALSE, NoRecord, NoReference))
       ELSE IF path \notin DOMAIN resultFiles
       THEN Finish(p, Return(g, "ReadError", FALSE, NoRecord, NoReference))
       ELSE LET d == Deserialize(resultFiles[path]) IN
            IF ~d.ok
            THEN Finish(p, Return(g, "ValidationError", FALSE, NoRecord, NoReference))
            ELSE Finish(p, Return(g, "ok", FALSE, d.record, NoReference))
    /\ UNCHANGED <<config, result_storage, resultFiles, metadataFiles, locks, minted>>

(***************************************************************************)
(* Initial states: stores as constructed, nothing stored, nothing locked.  *)
(***************************************************************************)
Configs ==
    [metadata_storage : BOOLEAN, lock_manager : BOOLEAN, persist_result : BOOLEAN,
     cache_result_in_memory : BOOLEAN, serializer : SerializerTypes]

NoScenario ==
    [phase |-> 0, a |-> NoCaller, b |-> NoCaller, key |-> NoneKey, obj |-> NotSet]

InitProgram ==
    /\ resultFiles = NoFiles
    /\ metadataFiles = NoFiles
    /\ locks = NoFiles
    /\ minted = 0
    /\ ref = NoReference
    /\ pc = [p \in Holders |-> "idle"]
    /\ frame = [p \in Holders |-> IdleFrame]
    /\ returned = NoReturn
    /\ previous = NoReturn
    /\ scenario = NoScenario
    /\ settled = {}

(***************************************************************************)
(* Spec: every operation of the store, every interleaving of two callers   *)
(* on one store instance whose result_storage is not resolved yet.         *)
(***************************************************************************)
Init ==
    /\ config \in {c \in Configs :
                     c.serializer = "pickle" /\ c.persist_result /\ c.cache_result_in_memory}
    /\ result_storage = [s \in Stores |-> NoStorage]
    /\ InitProgram

Unobserved(A) == A /\ UNCHANGED <<ref, previous, scenario, settled>>

Next ==
    \/ \E p \in Holders, k \in UserKeys, t \in BOOLEAN : Unobserved(AcquireLock(p, k, t))
    \/ \E p \in Holders, k \in UserKeys : Unobserved(ReleaseLock(p, k))
    \/ \E p \in Holders, k \in UserKeys, v \in Values :
          Unobserved(Write(p, "store1", k, v, NoExpiration))
    \/ \E p \in Holders : Unobserved(ResolveDefaultStorage(p))
    \/ \E p \in Holders : Unobserved(PersistResult(p))
    \/ \E p \in Holders : Unobserved(PersistMetadata(p))
    \/ \E p \in Holders, k \in UserKeys : Unobserved(Read(p, "store1", k))
    \/ \E p \in Holders : Unobserved(AwaitForLock(p))
    \/ \E p \in Holders : Unobserved(ReadStorage(p))
    \/ \E p \in Holders : Unobserved(ReadResult(p))
    \/ \E p \in Holders, k \in UserKeys, fault \in BOOLEAN :
          Unobserved(Exists(p, "store1", k, fault))
    \/ \E p \in Holders, v \in {MaxVal, NoneObj}, k \in InputKeys :
          Unobserved(CreateResult(p, "store1", v, k, NoExpiration))
    \/ \E p \in Holders : Unobserved(PersistedResultCreate(p))
    \/ \E p \in Holders, i \in Identifiers :
          Unobserved(StoreParameters(p, "store1", i, MaxVal))
    \/ \E p \in Holders, i \in Identifiers : Unobserved(ReadParameters(p, "store1", i))

Spec == Init /\ [][Next]_vars

(***************************************************************************)
(* SeqSpec: the calls run one after another (a caller runs only while      *)
(* every other caller is idle or blocked in its lock wait).  The observers *)
(* keep the call that returned before the last one and the progress of the *)
(* scenario                                                                *)
(*   A.acquire_lock(k); B.write(k, v); A.release_lock(k);                  *)
(*   B.acquire_lock(k); B.write(k, v)                                      *)
(* over consecutive calls.                                                 *)
(***************************************************************************)
Quiet(p) == \A q \in Holders \ {p} : pc[q] \in {"idle", "read_wait"}

Quiescent == \A q \in Holders : pc[q] \in {"idle", "read_wait"}

ScenarioStep(sc, r) ==
    IF sc.phase = 1 /\ r.op = "write" /\ r.caller # sc.a /\ r.key = sc.key
    THEN [sc EXCEPT !.phase = 2, !.b = r.caller, !.obj = r.written.result]
    ELSE IF sc.phase = 2 /\ r.op = "release_lock" /\ r.caller = sc.a /\ r.key = sc.key
    THEN [sc EXCEPT !.phase = 3]
    ELSE IF sc.phase = 3 /\ r.op = "acquire_lock" /\ r.caller = sc.b /\ r.key = sc.key
    THEN [sc EXCEPT !.phase = 4]
    ELSE IF /\ sc.phase = 4 /\ r.op = "write" /\ r.caller = sc.b /\ r.key = sc.key
            /\ r.written.result = sc.obj
    THEN [sc EXCEPT !.phase = 5]
    ELSE IF r.op = "acquire_lock" /\ r.status = "ok" /\ r.flag
    THEN [NoScenario EXCEPT !.phase = 1, !.a = r.caller, !.key = r.key]
    ELSE NoScenario

\* what `previous` keeps of a call: the successful writes and the probes,
\* which the properties relate to the call that follows them
Noted(r) ==
    IF (r.op \in {"write", "result_write"} /\ r.status = "ok") \/ r.op = "exists"
    THEN r ELSE NoReturn

Sequential(p, A) ==
    /\ Quiet(p)
    /\ A
    /\ IF pc'[p] = "idle"
       THEN /\ previous' = Noted(returned)
            /\ scenario' = ScenarioStep(scenario, returned')
       ELSE UNCHANGED <<previous, scenario>>
    /\ UNCHANGED <<ref, settled>>

SeqInit ==
    /\ config \in {c \in Configs :
                     c.serializer = "pickle" /\ c.persist_result /\ c.cache_result_in_memory}
    /\ result_storage = [s \in Stores |-> NoStorage]
    /\ InitProgram

SeqNext ==
    \/ \E p \in Holders, k \in UserKeys, t \in BOOLEAN : Sequential(p, AcquireLock(p, k, t))
    \/ \E p \in Holders, k \in UserKeys : Sequential(p, ReleaseLock(p, k))
    \/ \E p \in Holders, k \in UserKeys, v \in Values :
          Sequential(p, Write(p, "store1", k, v, NoExpiration))
    \/ \E p \in Holders : Sequential(p, ResolveDefaultStorage(p))
    \/ \E p \in Holders : Sequential(p, PersistResult(p))
    \/ \E p \in Holders : Sequential(p, PersistMetadata(p))
    \/ \E p \in Holders, k \in UserKeys : Sequential(p, Read(p, "store1", k))
    \/ \E p \in Holders : Sequential(p, AwaitForLock(p))
    \/ \E p \in Holders : Sequential(p, ReadStorage(p))
    \/ \E p \in Holders : Sequential(p, ReadResult(p))

SeqSpec == SeqInit /\ [][SeqNext]_vars

(***************************************************************************)
(* RoundTripSpec: one store without a lock manager, either serializer,     *)
(* with or without a metadata storage: writes and reads with any key, the  *)
(* empty one included, one call at a time.                                 *)
(***************************************************************************)
RoundTripInit ==
    /\ config \in {c \in Configs :
                     ~c.lock_manager /\ c.persist_result /\ c.cache_result_in_memory}
    /\ result_storage = [s \in Stores |-> NoStorage]
    /\ InitProgram

RoundTripNext ==
    \/ \E k \in InputKeys, v \in Values :
          Sequential("h1", Write("h1", "store1", k, v, NoExpiration))
    \/ Sequential("h1", ResolveDefaultStorage("h1"))
    \/ Sequential("h1", PersistResult("h1"))
    \/ Sequential("h1", PersistMetadata("h1"))
    \/ \E k \in InputKeys : Sequential("h1", Read("h1", "store1", k))
    \/ Sequential("h1", ReadStorage("h1"))
    \/ Sequential("h1", ReadResult("h1"))

RoundTripSpec == RoundTripInit /\ [][RoundTripNext]_vars

(***************************************************************************)
(* SharedSpec: two store instances over the same backends, no lock         *)
(* manager, one caller: write, read and exists (with and without an error  *)
(* of the backend), one call at a time.                                    *)
(***************************************************************************)
SharedInit ==
    /\ config \in {c \in Configs :
                     /\ ~c.lock_manager /\ c.serializer = "pickle"
                     /\ c.persist_result /\ c.cache_result_in_memory}
    /\ result_storage = [s \in Stores |-> NoStorage]
    /\ InitProgram

SharedNext ==
    \/ \E s \in Stores, k \in UserKeys, v \in Values :
          Sequential("h1", Write("h1", s, k, v, NoExpiration))
    \/ Sequential("h1", ResolveDefaultStorage("h1"))
    \/ Sequential("h1", PersistResult("h1"))
    \/ Sequential("h1", PersistMetadata("h1"))
    \/ \E s \in Stores, k \in UserKeys : Sequential("h1", Read("h1", s, k))
    \/ Sequential("h1", ReadStorage("h1"))
    \/ Sequential("h1", ReadResult("h1"))
    \/ \E s \in Stores, k \in UserKeys, fault \in BOOLEAN :
          Sequential("h1", Exists("h1", s, k, fault))

SharedSpec == SharedInit /\ [][SharedNext]_vars

(***************************************************************************)
(* SerializableSpec: the SERIALIZABLE discipline.  A lock manager is       *)
(* configured, result_storage is given at construction, and a caller       *)
(* writes a key only while it holds the key's lock (it cannot release      *)
(* before its write has returned).  settled collects the records that were *)
(* stored under a key at a moment when the key was not locked.             *)
(***************************************************************************)
StoredRecord(resultF, metadataF, key) ==
    IF config.metadata_storage
    THEN IF key \in DOMAIN metadataF /\ key \in DOMAIN resultF
         THEN DeserializeFromResultAndMetadata(resultF[key], metadataF[key])
         ELSE Failed
    ELSE IF key \in DOMAIN resultF THEN Deserialize(resultF[key]) ELSE Failed

Settling(A) ==
    /\ A
    /\ settled' = settled \cup
                    {StoredRecord(resultFiles', metadataFiles', k).record :
                       k \in {q \in UserKeys :
                                /\ q \notin DOMAIN locks'
                                /\ StoredRecord(resultFiles', metadataFiles', q).ok}}
    /\ UNCHANGED <<ref, previous, scenario>>

SerializableInit ==
    /\ config \in {c \in Configs :
                     /\ c.lock_manager /\ c.serializer = "pickle"
                     /\ c.persist_result /\ c.cache_result_in_memory}
    /\ result_storage = [s \in Stores |-> DefaultStorage]
    /\ InitProgram

SerializableNext ==
    \/ \E p \in Holders, k \in UserKeys, t \in BOOLEAN : Settling(AcquireLock(p, k, t))
    \/ \E p \in Holders, k \in UserKeys : Settling(ReleaseLock(p, k))
    \/ \E p \in Holders, k \in UserKeys, v \in Values, e \in Expirations :
          IsLockHolder(k, p) /\ Settling(Write(p, "store1", k, v, e))
    \/ \E p \in Holders : Settling(PersistResult(p))
    \/ \E p \in Holders : Settling(PersistMetadata(p))
    \/ \E p \in Holders, k \in UserKeys : Settling(Read(p, "store1", k))
    \/ \E p \in Holders : Settling(AwaitForLock(p))
    \/ \E p \in Holders : Settling(ReadStorage(p))
    \/ \E p \in Holders : Settling(ReadResult(p))

SerializableSpec == SerializableInit /\ [][SerializableNext]_vars

(***************************************************************************)
(* SplitReadSpec: reads on a store with a metadata storage, over backends  *)
(* that already hold files: metadata under the user keys, recording any    *)
(* storage key or none, and payloads under any storage key.                *)
(***************************************************************************)
StorageKeys == UserKeys \cup {DEFAULT_STORAGE_KEY_FN(n) : n \in 1..MaxMint}

\* the backends' contents: every function from a set of paths to blobs
Contents(paths, blobs) == UNION {[d -> blobs] : d \in SUBSET paths}

SplitReadInit ==
    /\ config \in {c \in Configs :
                     /\ c.metadata_storage /\ ~c.lock_manager /\ c.serializer = "pickle"
                     /\ c.persist_result /\ c.cache_result_in_memory}
    /\ result_storage = [s \in Stores |-> NoStorage]
    /\ locks = NoFiles
    /\ minted = 0
    /\ ref = NoReference
    /\ pc = [p \in Holders |-> "idle"]
    /\ frame = [p \in Holders |-> IdleFrame]
    /\ returned = NoReturn
    /\ previous = NoReturn
    /\ scenario = NoScenario
    /\ settled = {}
    /\ metadataFiles \in
          Contents(UserKeys,
                   {DumpBytes(ResultRecordMetadata(sk, NoExpiration, "pickle", NoBlockId)) :
                      sk \in StorageKeys \cup {NoneKey}})
    /\ resultFiles \in Contents(StorageKeys, {Dumps("pickle", v) : v \in Values})

SplitReadNext ==
    \/ \E k \in UserKeys : Unobserved(Read("h1", "store1", k))
    \/ Unobserved(ResolveDefaultStorage("h1"))
    \/ Unobserved(ReadStorage("h1"))
    \/ Unobserved(ReadResult("h1"))

SplitReadSpec == SplitReadInit /\ [][SplitReadNext]_vars

(***************************************************************************)
(* SplitWriteSpec: two callers writing through one store that has a        *)
(* metadata storage, over backends that start empty and may fail any       *)
(* write.  A caller that stops for good between the two writes is a caller *)
(* that takes no further step.                                             *)
(***************************************************************************)
SplitWriteInit ==
    /\ config \in {c \in Configs :
                     /\ c.metadata_storage /\ ~c.lock_manager /\ c.serializer = "pickle"
                     /\ c.persist_result /\ c.cache_result_in_memory}
    /\ result_storage = [s \in Stores |-> NoStorage]
    /\ InitProgram

SplitWriteNext ==
    \/ \E p \in Holders, k \in UserKeys, v \in Values :
          Unobserved(Write(p, "store1", k, v, NoExpiration))
    \/ \E p \in Holders : Unobserved(ResolveDefaultStorage(p))
    \/ \E p \in Holders : Unobserved(PersistResult(p))
    \/ \E p \in Holders : Unobserved(PersistMetadata(p))
    \/ \E p \in Holders : Unobserved(WritePathRaises(p))

SplitWriteSpec == SplitWriteInit /\ [][SplitWriteNext]_vars

(***************************************************************************)
(* ReferenceSpec: a store of any persistence and caching setting hands out *)
(* references with create_result; a caller writes and gets the reference   *)
(* it was handed last, one call at a time.                                 *)
(***************************************************************************)
Objects == Values \cup {NoneObj}

Calling(p, A) ==
    /\ Quiet(p)
    /\ A
    /\ previous' = IF pc'[p] = "idle" THEN Noted(returned) ELSE previous
    /\ UNCHANGED <<scenario, settled>>

ReferenceInit ==
    /\ config \in {c \in Configs :
                     ~c.metadata_storage /\ ~c.lock_manager /\ c.serializer = "pickle"}
    /\ result_storage = [s \in Stores |-> NoStorage]
    /\ InitProgram

ReferenceNext ==
    \/ \E k \in UserKeys, v \in Objects :
          Calling("h1", CreateResult("h1", "store1", v, k, NoExpiration) /\ UNCHANGED ref)
    \/ Calling("h1", ResolveDefaultStorage("h1") /\ UNCHANGED ref)
    \/ Calling("h1", PersistedResultCreate("h1") /\ ref' = returned'.reference)
    \/ \E obj \in Values \cup {NotSet} : Calling("h1", PersistedResultWrite("h1", obj))
    \/ Calling("h1", PersistedResultPersist("h1"))
    \/ \E ignore_cache \in BOOLEAN : Calling("h1", PersistedResultGet("h1", ignore_cache))
    \/ Calling("h1", PersistedResultRead("h1"))

ReferenceSpec == ReferenceInit /\ [][ReferenceNext]_vars

(***************************************************************************)
(* LockApiSpec: the lock calls and supports_isolation_level next to write, *)
(* read and exists, on a store with or without a lock manager, one call    *)
(* at a time.                                                              *)
(***************************************************************************)
Alone(p, A) == Quiet(p) /\ A /\ UNCHANGED <<ref, previous, scenario, settled>>

LockApiInit ==
    /\ config \in {c \in Configs :
                     c.serializer = "pickle" /\ c.persist_result /\ c.cache_result_in_memory}
    /\ result_storage = [s \in Stores |-> NoStorage]
    /\ InitProgram

LockApiNext ==
    \/ \E p \in Holders, k \in UserKeys, t \in BOOLEAN : Alone(p, AcquireLock(p, k, t))
    \/ \E p \in Holders, k \in UserKeys, t \in BOOLEAN : Alone(p, AAcquireLock(p, k, t))
    \/ \E p \in Holders, k \in UserKeys : Alone(p, ReleaseLock(p, k))
    \/ \E p \in Holders, k \in UserKeys : Alone(p, StoreIsLocked(p, k))
    \/ \E p \in Holders, k \in UserKeys, h \in Holders : Alone(p, StoreIsLockHolder(p, k, h))
    \/ \E p \in Holders, k \in UserKeys, t \in BOOLEAN,
          op \in {"wait_for_lock", "await_for_lock"} : Alone(p, WaitForLock(p, op, k, t))
    \/ \E p \in Holders, l \in Levels : Alone(p, SupportsIsolationLevel(p, "store1", l))
    \/ \E p \in Holders, k \in UserKeys :
          Alone(p, Write(p, "store1", k, MaxVal, NoExpiration))
    \/ \E p \in Holders : Alone(p, ResolveDefaultStorage(p))
    \/ \E p \in Holders : Alone(p, PersistResult(p))
    \/ \E p \in Holders : Alone(p, PersistMetadata(p))
    \/ \E p \in Holders, k \in UserKeys : Alone(p, Read(p, "store1", k))
    \/ \E p \in Holders : Alone(p, AwaitForLock(p))
    \/ \E p \in Holders : Alone(p, ReadStorage(p))
    \/ \E p \in Holders : Alone(p, ReadResult(p))
    \/ \E p \in Holders, k \in UserKeys : Alone(p, Exists(p, "store1", k, FALSE))

LockApiSpec == LockApiInit /\ [][LockApiNext]_vars

(***************************************************************************)
(* UpdateSpec: update_for_flow and update_for_task on a store of any       *)
(* serializer, persistence and caching setting, constructed with or        *)
(* without a result storage, for every flow and task setting given or left *)
(* None.                                                                   *)
(***************************************************************************)
UpdateInit ==
    /\ config \in {c \in Configs : ~c.metadata_storage /\ ~c.lock_manager}
    /\ \E x \in {NoStorage} \cup {ResolveResultStorage(g) : g \in GivenStorages} :
          result_storage = [s \in Stores |-> x]
    /\ InitProgram

UpdateNext ==
    \/ \E flow \in Flows : Alone("h1", UpdateForFlow("h1", "store1", flow))
    \/ \E task \in Tasks : Alone("h1", UpdateForTask("h1", "store1", task))

UpdateSpec == UpdateInit /\ [][UpdateNext]_vars

(***************************************************************************)
(* LegacySpec: reads on a store whose result storage already holds legacy  *)
(* flat records, with any of the legacy keys present or absent and with a  *)
(* payload the named serializer can or cannot decode.                      *)
(***************************************************************************)
LegacyVersions == {"2.x"}

Payloads == {Dumps(t, v) : t \in SerializerTypes, v \in Values}

LegacyRecords ==
    {LegacyRecord(d, e, t, pv) :
       d \in Optional(Payloads), e \in Optional(Expirations),
       t \in Optional(SerializerTypes), pv \in Optional(LegacyVersions)}

LegacyInit ==
    /\ config \in {c \in Configs :
                     /\ ~c.metadata_storage /\ ~c.lock_manager /\ c.serializer = "pickle"
                     /\ c.persist_result /\ c.cache_result_in_memory}
    /\ result_storage = [s \in Stores |-> NoStorage]
    /\ resultFiles \in Contents(UserKeys, LegacyRecords)
    /\ metadataFiles = NoFiles
    /\ locks = NoFiles
    /\ minted = 0
    /\ ref = NoReference
    /\ pc = [p \in Holders |-> "idle"]
    /\ frame = [p \in Holders |-> IdleFrame]
    /\ returned = NoReturn
    /\ previous = NoReturn
    /\ scenario = NoScenario
    /\ settled = {}

LegacyNext ==
    \/ \E k \in UserKeys : Alone("h1", Read("h1", "store1", k))
    \/ Alone("h1", ResolveDefaultStorage("h1"))
    \/ Alone("h1", ReadStorage("h1"))

LegacySpec == LegacyInit /\ [][LegacyNext]_vars

(***************************************************************************)
(* FaultSpec: writes through a store, with or without a metadata storage,  *)
(* and through the references it hands out, of objects the serializer can  *)
(* and cannot encode, one call at a time.                                  *)
(***************************************************************************)
FaultInit ==
    /\ config \in {c \in Configs :
                     ~c.lock_manager /\ c.serializer = "pickle" /\ c.persist_result}
    /\ result_storage = [s \in Stores |-> NoStorage]
    /\ InitProgram

FaultNext ==
    \/ \E k \in UserKeys, v \in {MaxVal, Unserializable} :
          Calling("h1", Write("h1", "store1", k, v, NoExpiration) /\ UNCHANGED ref)
    \/ Calling("h1", ResolveDefaultStorage("h1") /\ UNCHANGED ref)
    \/ Calling("h1", PersistResult("h1") /\ UNCHANGED ref)
    \/ Calling("h1", PersistMetadata("h1") /\ UNCHANGED ref)
    \/ \E k \in UserKeys, v \in {MaxVal, Unserializable} :
          Calling("h1", CreateResult("h1", "store1", v, k, NoExpiration) /\ UNCHANGED ref)
    \/ Calling("h1", PersistedResultCreate("h1") /\ ref' = returned'.reference)
    \/ \E obj \in {NotSet, MaxVal, Unserializable} :
          Calling("h1", PersistedResultWrite("h1", obj))
    \/ Calling("h1", PersistedResultPersist("h1"))

FaultSpec == FaultInit /\ [][FaultNext]_vars

(***************************************************************************)
(* LoadedSpec: as ReferenceSpec, with references that went through         *)
(* serialization and so hold no object, no storage block and no serializer.*)
(***************************************************************************)
LoadedInit ==
    /\ config \in {c \in Configs :
                     ~c.metadata_storage /\ ~c.lock_manager /\ c.serializer = "pickle"}
    /\ result_storage = [s \in Stores |-> NoStorage]
    /\ InitProgram

LoadedNext ==
    \/ \E k \in UserKeys, v \in Objects :
          Calling("h1", CreateResult("h1", "store1", v, k, NoExpiration) /\ UNCHANGED ref)
    \/ Calling("h1", ResolveDefaultStorage("h1") /\ UNCHANGED ref)
    \/ Calling("h1", PersistedResultCreate("h1") /\ ref' = returned'.reference)
    \/ Quiet("h1") /\ ReloadReference("h1") /\ UNCHANGED <<previous, scenario, settled>>
    \/ \E obj \in Values \cup {NotSet} : Calling("h1", PersistedResultWrite("h1", obj))
    \/ Calling("h1", PersistedResultPersist("h1"))
    \/ \E ignore_cache \in BOOLEAN : Calling("h1", PersistedResultGet("h1", ignore_cache))
    \/ Calling("h1", PersistedResultRead("h1"))

LoadedSpec == LoadedInit /\ [][LoadedNext]_vars

(***************************************************************************)
(* The life of a reference with calls that fail: created objects and       *)
(* written objects may be unserializable, gets may find nothing stored.    *)
(***************************************************************************)
LifecycleInit ==
    /\ config \in {c \in Configs :
                     ~c.metadata_storage /\ ~c.lock_manager /\ c.serializer = "pickle"}
    /\ result_storage = [s \in Stores |-> NoStorage]
    /\ InitProgram

LifecycleNext ==
    \/ \E k \in UserKeys, v \in Objects \cup {Unserializable} :
          Calling("h1", CreateResult("h1", "store1", v, k, NoExpiration) /\ UNCHANGED ref)
    \/ Calling("h1", ResolveDefaultStorage("h1") /\ UNCHANGED ref)
    \/ Calling("h1", PersistedResultCreate("h1") /\ ref' = returned'.reference)
    \/ \E obj \in Values \cup {NotSet, Unserializable} :
          Calling("h1", PersistedResultWrite("h1", obj))
    \/ Calling("h1", PersistedResultPersist("h1"))
    \/ \E ignore_cache \in BOOLEAN : Calling("h1", PersistedResultGet("h1", ignore_cache))
    \/ Calling("h1", PersistedResultRead("h1"))

LifecycleSpec == LifecycleInit /\ [][LifecycleNext]_vars

(***************************************************************************)
(* Two callers write one reference, their calls overlapping: each write    *)
(* suspends between its first test and its storage write.  The reference   *)
(* is created while no call is in progress.                                *)
(***************************************************************************)
Overlapping(A) == A /\ UNCHANGED <<previous, scenario, settled>>

OverlapInit ==
    /\ config \in {c \in Configs :
                     /\ ~c.metadata_storage /\ ~c.lock_manager
                     /\ c.serializer = "pickle" /\ c.persist_result}
    /\ result_storage = [s \in Stores |-> NoStorage]
    /\ InitProgram

OverlapNext ==
    \/ \E k \in UserKeys, v \in Values :
          Calling("h1", CreateResult("h1", "store1", v, k, NoExpiration) /\ UNCHANGED ref)
    \/ Calling("h1", ResolveDefaultStorage("h1") /\ UNCHANGED ref)
    \/ Calling("h1", PersistedResultCreate("h1") /\ ref' = returned'.reference)
    \/ \E p \in Holders, obj \in Values \cup {NotSet} :
          Overlapping(PersistedResultWrite(p, obj))
    \/ \E p \in Holders : Overlapping(PersistedResultPersist(p))

OverlapSpec == OverlapInit /\ [][OverlapNext]_vars

(***************************************************************************)
(* A reference of a store that may have a lock manager, written and read   *)
(* by one caller while another takes and releases locks on the storage     *)
(* keys of its references.                                                 *)
(***************************************************************************)
ReferenceKeys == {InferPath(DefaultStorage, k) : k \in UserKeys}

ForeignLockInit ==
    /\ config \in {c \in Configs :
                     ~c.metadata_storage /\ c.serializer = "pickle" /\ c.persist_result}
    /\ result_storage = [s \in Stores |-> NoStorage]
    /\ InitProgram

ForeignLockNext ==
    \/ \E k \in ReferenceKeys, t \in BOOLEAN :
          Unobserved(AcquireLock("h2", k, t))
    \/ \E k \in ReferenceKeys : Unobserved(ReleaseLock("h2", k))
    \/ \E k \in UserKeys, v \in {MaxVal} :
          Calling("h1", CreateResult("h1", "store1", v, k, NoExpiration) /\ UNCHANGED ref)
    \/ Calling("h1", ResolveDefaultStorage("h1") /\ UNCHANGED ref)
    \/ Calling("h1", PersistedResultCreate("h1") /\ ref' = returned'.reference)
    \/ \E obj \in {NotSet, MaxVal} : Calling("h1", PersistedResultWrite("h1", obj))
    \/ Calling("h1", PersistedResultPersist("h1"))
    \/ \E ignore_cache \in BOOLEAN : Calling("h1", PersistedResultGet("h1", ignore_cache))
    \/ Calling("h1", PersistedResultRead("h1"))

ForeignLockSpec == ForeignLockInit /\ [][ForeignLockNext]_vars

(***************************************************************************)
(* Reads under fair scheduling: one store with a lock manager, callers     *)
(* that lock, release, write and read concurrently.  A call that has been  *)
(* started and can take its next step (its wait for the lock, its storage  *)
(* resolution, its read of the storage) is eventually resumed.             *)
(***************************************************************************)
FairInit ==
    /\ config \in {c \in Configs :
                     /\ c.lock_manager /\ ~c.metadata_storage /\ c.serializer = "pickle"
                     /\ c.persist_result /\ c.cache_result_in_memory}
    /\ result_storage = [s \in Stores |-> NoStorage]
    /\ InitProgram

FairNext ==
    \/ \E p \in Holders, k \in UserKeys : Unobserved(AcquireLock(p, k, TRUE))
    \/ \E p \in Holders, k \in UserKeys : Unobserved(ReleaseLock(p, k))
    \/ \E p \in Holders, k \in UserKeys :
          Unobserved(Write(p, "store1", k, MaxVal, NoExpiration))
    \/ \E p \in Holders : Unobserved(ResolveDefaultStorage(p))
    \/ \E p \in Holders : Unobserved(PersistResult(p))
    \/ \E p \in Holders, k \in UserKeys : Unobserved(Read(p, "store1", k))
    \/ \E p \in Holders : Unobserved(AwaitForLock(p))
    \/ \E p \in Holders : Unobserved(ReadStorage(p))

Fairness ==
    \A p \in Holders :
       /\ WF_vars(Unobserved(AwaitForLock(p)))
       /\ WF_vars(Unobserved(ResolveDefaultStorage(p)))
       /\ WF_vars(Unobserved(ReadStorage(p)))

FairSpec == FairInit /\ [][FairNext]_vars /\ Fairness

(***************************************************************************)
(* Properties.                                                             *)
(***************************************************************************)

\* C1 (Spec): a write issued by holder B on key k never changes result or
\* metadata storage for k while k is locked by a different holder A.  The
\* lock is tested once, in Write; the storage writes are later steps.
C1_NoWriteUnderForeignLock ==
    [][\A p \in Holders :
         (PersistResult(p) \/ PersistMetadata(p))
            => ~LockedByAnother(frame[p].record.metadata.storage_key, p)]_vars

\* C2 (SeqSpec): with the calls run one after another, after A acquires k
\* the write of v to k by B # A fails with the RuntimeError of the lock
\* check; after A releases k, B's acquire_lock returns True and B's retried
\* write succeeds and leaves v stored under k.
C2_LockExclusionScenario ==
    /\ scenario.phase = 2 => returned.status = "RuntimeError" /\ returned.accesses = {}
    /\ scenario.phase = 4 => returned.status = "ok" /\ returned.flag
    /\ scenario.phase = 5 /\ Quiescent =>
          /\ returned.status = "ok"
          /\ StoredRecord(resultFiles, metadataFiles, scenario.key).ok
          /\ StoredRecord(resultFiles, metadataFiles, scenario.key).record.result
                = scenario.obj

C2_Witness ==
    /\ scenario.phase = 5
    /\ scenario.a # scenario.b
    /\ Quiescent
    /\ IsLockHolder(scenario.key, scenario.b)

\* C3 (Spec): a read of k by a caller that is not the holder of k's lock
\* performs none of its storage reads (metadata or payload) at a moment when
\* k is locked by another holder.
C3_NoReadUnderForeignLock ==
    [][\A p \in Holders :
         (ReadStorage(p) \/ ReadResult(p)) /\ frame[p].waited
            => ~(IsLocked(frame[p].key) /\ ~IsLockHolder(frame[p].key, p))]_vars

\* C4 (SerializableSpec): when every writer of k holds k's lock for the whole
\* of its write, a read of k by a non-holder returns a record that was the
\* stored record of k at a moment when k was not locked: never metadata of
\* one write with the payload of another, never the data of a write whose
\* holder still holds the lock.
C4_ReadsAreSettled ==
    returned.op = "read" /\ returned.status = "ok" /\ returned.waited
        => returned.record \in settled

\* C5 (SeqSpec): a holder H of k's lock writes k and then reads k without
\* waiting: the write succeeds, the read never waits on the lock, and it
\* returns a record whose result is the value written.
C5_HolderWritesThenReads ==
    /\ \A p \in Holders : pc[p] = "read_wait" => ~IsLockHolder(frame[p].key, p)
    /\ returned.op = "write" /\ IsLockHolder(returned.key, returned.caller)
          => returned.status = "ok"
    /\ ( /\ previous.op = "write" /\ previous.status = "ok"
         /\ returned.op = "read"
         /\ returned.caller = previous.caller /\ returned.key = previous.key
         /\ IsLockHolder(returned.key, returned.caller) )
          => /\ returned.status = "ok"
             /\ ~returned.waited
             /\ returned.record.result = previous.written.result

C5_Witness ==
    /\ previous.op = "write" /\ previous.status = "ok"
    /\ returned.op = "read" /\ returned.status = "ok"
    /\ returned.caller = previous.caller /\ returned.key = previous.key
    /\ IsLockHolder(returned.key, returned.caller)
    /\ returned.record.result = MaxVal

\* C6 (Spec): the lock manager's state changes only in a step of
\* acquire_lock or release_lock; exists, read, write, create_result,
\* store_parameters and read_parameters leave it unchanged, whether they
\* succeed or fail.
C6_OnlyLockCallsChangeLocks ==
    [][locks' # locks =>
         \E p \in Holders, k \in UserKeys :
            \/ \E t \in BOOLEAN : AcquireLock(p, k, t)
            \/ ReleaseLock(p, k)]_vars

C6_Witness ==
    /\ returned.op = "read" /\ returned.status = "ok" /\ returned.waited
    /\ ~IsLocked(returned.key)
    /\ \E p \in Holders : pc[p] = "persist_metadata"

\* C7 (RoundTripSpec): for any non-empty key, any value and either serializer,
\* a successful write(key, v) followed by read(key) on the same store returns
\* a record whose result is v, with and without a metadata storage.
C7_RoundTrip ==
    ( /\ previous.op = "write" /\ previous.status = "ok"
      /\ returned.op = "read"
      /\ returned.store = previous.store /\ returned.key = previous.key
      /\ previous.key # EmptyKey )
       => returned.status = "ok" /\ returned.record.result = previous.written.result

C7_Witness ==
    /\ previous.op = "write" /\ previous.status = "ok"
    /\ returned.op = "read" /\ returned.status = "ok"
    /\ returned.store = previous.store /\ returned.key = previous.key
    /\ previous.key # EmptyKey
    /\ config.metadata_storage /\ config.serializer = "json"
    /\ returned.record.result = MaxVal

\* C7 as stated, for any key: the empty key included.
C7_RoundTripAnyKey ==
    ( /\ previous.op = "write" /\ previous.status = "ok"
      /\ returned.op = "read"
      /\ returned.store = previous.store /\ returned.key = previous.key )
       => returned.status = "ok" /\ returned.record.result = previous.written.result

\* C8 (SharedSpec): exists(key), when the backend raises no error, is true
\* iff read(key) on the same store returns a record, for every configuration
\* of the store, one whose result_storage is not resolved yet included.
C8_ExistsIffReadable ==
    ( /\ previous.op = "exists" /\ ~previous.fault /\ returned.op = "read"
      /\ returned.store = previous.store /\ returned.key = previous.key )
       => (previous.flag <=> returned.status = "ok")

\* C9 (SharedSpec): exists never raises; a failure while probing (missing key,
\* storage error, result_storage of None) is reported as False; exists
\* changes neither the storages nor the store's configuration.
C9_ExistsNeverRaises ==
    [][\A p \in Holders, s \in Stores, k \in UserKeys, fault \in BOOLEAN :
         Exists(p, s, k, fault) =>
            /\ returned'.status = "ok"
            /\ ( \/ fault
                 \/ (config.metadata_storage /\ k \notin DOMAIN metadataFiles)
                 \/ (~config.metadata_storage /\ result_storage[s] = NoStorage)
                 \/ (~config.metadata_storage /\ k \notin DOMAIN resultFiles) )
                  => ~returned'.flag
            /\ UNCHANGED <<config, result_storage, resultFiles, metadataFiles>>]_vars

C9_Witness ==
    /\ returned.op = "exists" /\ returned.fault
    /\ returned.status = "ok" /\ ~returned.flag
    /\ ~config.metadata_storage
    /\ result_storage[returned.store] # NoStorage
    /\ returned.key \in DOMAIN resultFiles

\* C10 (Spec): with a metadata storage, exists(key) reads metadata storage
\* under key and nothing else, and its answer is a function of what metadata
\* storage holds under key; without one, it reads result storage only.
C10_ExistsReadsOneStorage ==
    [][\A p \in Holders, s \in Stores, k \in UserKeys, fault \in BOOLEAN :
         Exists(p, s, k, fault) =>
            IF config.metadata_storage
            THEN /\ returned'.accesses = {Access("metadata", "read", k)}
                 /\ returned'.flag = (~fault /\ k \in DOMAIN metadataFiles)
            ELSE \A a \in returned'.accesses : a = Access("result", "read", k)]_vars

C10_Witness ==
    /\ returned.op = "exists" /\ ~returned.fault /\ ~returned.flag
    /\ config.metadata_storage
    /\ returned.key \in DOMAIN resultFiles
    /\ returned.key \notin DOMAIN metadataFiles
    /\ returned.accesses = {Access("metadata", "read", returned.key)}

\* C11 (SplitReadSpec): with a metadata storage, read(key) loads the
\* metadata stored under key and fetches the payload from result storage
\* under the storage_key that metadata records, not under key, also when the
\* two differ; metadata that records no storage_key makes the read fail
\* without any read of result storage.
C11_ReadFollowsStorageKey ==
    returned.op = "read" /\ returned.key \in DOMAIN metadataFiles =>
       LET sk == LoadBytes(metadataFiles[returned.key]).metadata.storage_key IN
       /\ Access("metadata", "read", returned.key) \in returned.accesses
       /\ IF sk = NoneKey
          THEN /\ returned.status = "AssertionError"
               /\ \A a \in returned.accesses : a.storage # "result"
          ELSE /\ returned.accesses =
                     {Access("metadata", "read", returned.key), Access("result", "read", sk)}
               /\ IF sk \in DOMAIN resultFiles
                  THEN /\ returned.status = "ok"
                       /\ returned.record.result = Loads("pickle", resultFiles[sk])
                       /\ returned.record.metadata.storage_key = sk
                  ELSE returned.status = "ReadError"

C11_Witness ==
    /\ returned.op = "read" /\ returned.status = "ok"
    /\ returned.record.metadata.storage_key # returned.key
    /\ returned.key \in DOMAIN resultFiles
    /\ Loads("pickle", resultFiles[returned.key]) # returned.record.result

\* C12 (SplitWriteSpec): with a metadata storage, a persist writes the
\* payload to result storage under the record's key and then the metadata to
\* metadata storage under the same key, as two steps with nothing undone when
\* the second fails or never happens; so in every reachable state every key
\* that has metadata also has a payload in result storage under that key.
C12_MetadataImpliesPayload ==
    /\ DOMAIN metadataFiles \subseteq DOMAIN resultFiles
    /\ \A k \in DOMAIN metadataFiles :
          /\ LoadBytes(metadataFiles[k]).ok
          /\ LoadBytes(metadataFiles[k]).metadata.storage_key = k
          /\ resultFiles[k].kind = "payload"

\* the second write failed after the first: a payload without metadata stays
C12_Witness ==
    /\ returned.op = "write" /\ returned.status = "WriteError"
    /\ Access("result", "write", returned.written.metadata.storage_key) \in returned.accesses
    /\ returned.written.metadata.storage_key \in DOMAIN resultFiles
    /\ returned.written.metadata.storage_key \notin DOMAIN metadataFiles

\* C13 (ReferenceSpec): on a reference with persistence enabled and an
\* object cached, a write performs exactly one storage write, under the
\* reference's storage_key, and marks the reference persisted; a write that
\* follows a successful one is a no-op: it returns at once, performs no
\* storage access and changes neither the storage nor the reference.
C13_SecondWriteIsNoOp ==
    [][/\ PersistedResultPersist("h1") =>
             /\ returned'.status = "ok"
             /\ returned'.accesses = {Access("result", "write", ref.storage_key)}
             /\ ref'.persisted
       /\ \A obj \in Values \cup {NotSet} :
             /\ PersistedResultWrite("h1", obj)
             /\ returned.op = "result_write" /\ returned.status = "ok"
             /\ returned.accesses # {}
             => /\ pc'["h1"] = "idle"
                /\ returned'.status = "ok"
                /\ returned'.accesses = {}
                /\ UNCHANGED <<ref, resultFiles, metadataFiles>>]_vars

C13_Witness ==
    /\ previous.op = "result_write" /\ previous.status = "ok"
    /\ previous.accesses = {Access("result", "write", ref.storage_key)}
    /\ returned.op = "result_write" /\ returned.status = "ok"
    /\ returned.accesses = {}
    /\ ref.persisted /\ ~ref.serialize_to_none

\* C14 (ReferenceSpec): a store with persist_result false hands out, from
\* create_result, references with serialize_to_none set; whatever their other
\* fields and whatever was called on them, they serialize to exactly null,
\* are never marked persisted and keep their cached object; a write on such a
\* reference returns at once without any storage access and changes neither
\* the reference nor the storage.
C14_DisabledReferenceIsNull ==
    /\ [](~config.persist_result /\ ref.type = "reference" =>
             /\ ref.serialize_to_none
             /\ SerializeModel(ref) = NoneJson
             /\ ~ref.persisted
             /\ HasCachedObject(ref))
    /\ [][/\ PersistedResultCreate("h1") /\ ~config.persist_result =>
                /\ returned'.reference.serialize_to_none
                /\ SerializeModel(returned'.reference) = NoneJson
          /\ \A obj \in Values \cup {NotSet} :
                PersistedResultWrite("h1", obj) /\ ref.serialize_to_none =>
                   /\ pc'["h1"] = "idle"
                   /\ returned'.status = "ok"
                   /\ returned'.accesses = {}
                   /\ UNCHANGED <<ref, resultFiles, metadataFiles>>]_vars

C14_Witness ==
    /\ ~config.persist_result
    /\ returned.op = "result_write" /\ returned.status = "ok"
    /\ ref.serialize_to_none /\ ~ref.persisted
    /\ ref.cache \in Values
    /\ ~ref.should_cache_object
    /\ resultFiles = NoFiles

\* C15 (ReferenceSpec): a reference handed out by a store with persist_result
\* false never touches storage: no write or get on it, get(ignore_cache=true)
\* included, reaches the storage part of the call or performs a read or a
\* write on a backend.
C15_DisabledNeverTouchesStorage ==
    ~config.persist_result =>
       /\ \A p \in Holders : pc[p] \notin {"result_persist", "result_read"}
       /\ returned.op \in {"result_write", "result_get"} => returned.accesses = {}

\* C16 (ReferenceSpec), as stated: a reference created with in-memory caching
\* disabled re-reads storage on every get, in every state of the reference,
\* before its first write included: each get goes to storage, performs a
\* storage read and leaves the transient cache empty.
C16_RereadsOnEveryGet ==
    [][/\ \A ignore_cache \in BOOLEAN :
             PersistedResultGet("h1", ignore_cache) /\ ~ref.should_cache_object =>
                pc'["h1"] = "result_read"
       /\ PersistedResultRead("h1") /\ ~ref.should_cache_object =>
             /\ Access("result", "read", ref.storage_key) \in returned'.accesses
             /\ ~HasCachedObject(ref')]_vars

\* C16 (ReferenceSpec), amended: once a reference created with in-memory
\* caching disabled has been written, its transient cache is empty and every
\* get, with or without ignore_cache and also right after a prior get, goes
\* to storage, performs a storage read under storage_key that succeeds, and
\* leaves the cache empty.
C16_RereadsOnceWritten ==
    /\ [](ref.type = "reference" /\ ~ref.should_cache_object /\ ref.persisted =>
             ~HasCachedObject(ref))
    /\ [][/\ \A ignore_cache \in BOOLEAN :
                /\ PersistedResultGet("h1", ignore_cache)
                /\ ~ref.should_cache_object /\ ref.persisted
                => pc'["h1"] = "result_read"
          /\ PersistedResultRead("h1") /\ ~ref.should_cache_object /\ ref.persisted =>
                /\ returned'.status = "ok"
                /\ returned'.accesses = {Access("result", "read", ref.storage_key)}
                /\ ~HasCachedObject(ref')]_vars

C16_Witness ==
    /\ ref.type = "reference" /\ ~ref.should_cache_object /\ ref.persisted
    /\ returned.op = "result_get" /\ returned.status = "ok"
    /\ returned.accesses = {Access("result", "read", ref.storage_key)}
    /\ returned.record.result \in Values
    /\ ~HasCachedObject(ref)

\* C17 (ReferenceSpec): a reference created with in-memory caching enabled
\* always holds a cached object, before and after write and after any get;
\* get() returns that object at once, with no storage access and no change
\* to the reference; get(ignore_cache=true) goes to storage, performs a read
\* under storage_key and, when the read succeeds, returns the value read and
\* makes it the cached object (a failed read leaves the cache as it was).
C17_CachedUntilIgnoreCache ==
    /\ [](ref.type = "reference" /\ ref.should_cache_object => HasCachedObject(ref))
    /\ [][/\ PersistedResultGet("h1", FALSE) /\ ref.should_cache_object =>
                /\ pc'["h1"] = "idle"
                /\ returned'.status = "ok"
                /\ returned'.record = Returning(ref.cache)
                /\ returned'.accesses = {}
                /\ UNCHANGED <<ref, resultFiles>>
          /\ PersistedResultGet("h1", TRUE) /\ ref.should_cache_object =>
                pc'["h1"] = "result_read"
          /\ PersistedResultRead("h1") /\ ref.should_cache_object =>
                /\ returned'.accesses = {Access("result", "read", ref.storage_key)}
                /\ IF returned'.status = "ok"
                   THEN /\ returned'.record.result =
                              Deserialize(resultFiles[ref.storage_key]).record.result
                        /\ ref'.cache = returned'.record.result
                   ELSE ref'.cache = ref.cache]_vars

\* after a write, get(ignore_cache=true) has read the object written and
\* made it the cached object
C17_Witness ==
    /\ ref.type = "reference" /\ ref.should_cache_object /\ ref.persisted
    /\ previous.op = "result_write" /\ previous.accesses # {}
    /\ returned.op = "result_get" /\ returned.status = "ok"
    /\ returned.accesses = {Access("result", "read", ref.storage_key)}
    /\ ref.cache = returned.record.result
    /\ ref.cache = previous.written.result
    /\ ref.storage_block = NoStorage

\* C18 (ReferenceSpec): a write that reaches storage leaves the reference
\* persisted, with its cache kept when should-cache was requested and empty
\* otherwise; and when a get follows a successful write whose cache was
\* dropped, the get reads storage under the storage_key and returns a value
\* equal to the one written.
C18_WrittenValueIsRefetchable ==
    /\ [][PersistedResultPersist("h1") =>
             /\ ref'.persisted
             /\ ref'.cache = IF ref.should_cache_object THEN ref.cache ELSE NotSet
             /\ ref.should_cache_object => HasCachedObject(ref')
             /\ ref'.storage_key = ref.storage_key]_vars
    /\ [](/\ previous.op = "result_write" /\ previous.accesses # {}
          /\ returned.op = "result_get"
          /\ ~ref.should_cache_object
          => /\ returned.status = "ok"
             /\ returned.accesses = {Access("result", "read", previous.key)}
             /\ returned.key = previous.key
             /\ returned.record.result = previous.written.result)

C18_Witness ==
    /\ previous.op = "result_write" /\ previous.status = "ok"
    /\ previous.accesses = {Access("result", "write", ref.storage_key)}
    /\ returned.op = "result_get" /\ returned.status = "ok"
    /\ returned.accesses = {Access("result", "read", ref.storage_key)}
    /\ ~ref.should_cache_object /\ ~HasCachedObject(ref)
    /\ returned.record.result = previous.written.result
    /\ returned.record.result \in Values

\* C19 (LockApiSpec): supports_isolation_level answers True for
\* READ_COMMITTED on every store, answers for SERIALIZABLE True exactly when
\* the store has a lock manager, fails with ValueError for anything else, and
\* changes nothing of the store, the backends or the locks.
C19_SupportsIsolationLevel ==
    [][\A p \in Holders, l \in Levels :
          SupportsIsolationLevel(p, "store1", l) =>
             /\ pc'[p] = "idle"
             /\ returned'.accesses = {}
             /\ l = "READ_COMMITTED" => returned'.status = "ok" /\ returned'.flag
             /\ l = "SERIALIZABLE" =>
                   returned'.status = "ok" /\ (returned'.flag <=> config.lock_manager)
             /\ l \notin IsolationLevels => returned'.status = "ValueError"
             /\ UNCHANGED <<config, result_storage, resultFiles, metadataFiles,
                            locks, minted, ref>>]_vars

\* SERIALIZABLE refused by a store without a lock manager that holds a record
C19_Witness ==
    /\ returned.op = "supports_isolation_level" /\ returned.key = "SERIALIZABLE"
    /\ returned.status = "ok" /\ ~returned.flag
    /\ ~config.lock_manager
    /\ resultFiles # NoFiles

\* C20 (LockApiSpec): on a store without a lock manager each of acquire_lock,
\* aacquire_lock, release_lock, is_locked, is_lock_holder, wait_for_lock and
\* await_for_lock fails at once with ConfigurationError, whatever its
\* arguments, and changes nothing; read, write and exists on that store raise
\* no ConfigurationError and check no lock: no read waits for a lock and no
\* write is refused for one.
C20_NoLockManager ==
    /\ [][~config.lock_manager =>
            \A p \in Holders, k \in UserKeys, t \in BOOLEAN :
               \/ AcquireLock(p, k, t)
               \/ AAcquireLock(p, k, t)
               \/ ReleaseLock(p, k)
               \/ StoreIsLocked(p, k)
               \/ \E h \in Holders : StoreIsLockHolder(p, k, h)
               \/ \E op \in {"wait_for_lock", "await_for_lock"} : WaitForLock(p, op, k, t)
               => /\ pc'[p] = "idle"
                  /\ returned'.status = "ConfigurationError"
                  /\ returned'.op \in {"acquire_lock", "aacquire_lock", "release_lock",
                                       "is_locked", "is_lock_holder", "wait_for_lock",
                                       "await_for_lock"}
                  /\ returned'.accesses = {}
                  /\ UNCHANGED <<config, result_storage, resultFiles, metadataFiles,
                                 locks, minted, ref>>]_vars
    /\ [](~config.lock_manager =>
            /\ \A p \in Holders : pc[p] # "read_wait"
            /\ returned.op \in {"read", "write", "exists"} =>
                  /\ returned.status \notin {"ConfigurationError", "RuntimeError"}
                  /\ ~returned.waited)

\* await_for_lock refused on a store that has written a record
C20_Witness ==
    /\ ~config.lock_manager
    /\ returned.op = "await_for_lock" /\ returned.status = "ConfigurationError"
    /\ resultFiles # NoFiles
    /\ locks = NoFiles

\* C21 (Spec): the default storage is resolved at most once per store
\* instance, over every interleaving of first uses (read, write,
\* create_result) of a store whose result_storage is unset: no call resolves
\* the default storage of a store whose result_storage is already set.
C21_ResolvedOnce ==
    [][\A p \in Holders :
          ResolveDefaultStorage(p) => result_storage[frame[p].store] = NoStorage]_vars

C23_LegacyEqualsNested ==
    returned.op = "read" /\ returned.key \in DOMAIN resultFiles =>
       LET legacy == resultFiles[returned.key]
           metadata ==
              [storage_key |-> NoneKey,
               expiration |-> IF legacy.expiration = {} THEN NoExpiration
                              ELSE CHOOSE x \in legacy.expiration : TRUE,
               serializer |-> IF legacy.serializer = {} THEN "pickle"
                              ELSE CHOOSE x \in legacy.serializer : TRUE,
               prefect_version |-> IF legacy.prefect_version = {} THEN PREFECT_VERSION
                                   ELSE CHOOSE x \in legacy.prefect_version : TRUE,
               storage_block_id |-> NoBlockId]
           readable == /\ legacy.data # {}
                       /\ \A d \in legacy.data : CanLoad(metadata.serializer, d)
       IN
       /\ legacy.kind = "legacy"
       /\ returned.status = IF readable THEN "ok" ELSE "ValidationError"
       /\ readable =>
             /\ returned.record.metadata = metadata
             /\ \A d \in legacy.data :
                   /\ returned.record.result = Loads(metadata.serializer, d)
                   /\ Deserialize([kind |-> "record", metadata |-> metadata,
                                   result |-> d]).record = returned.record

C23_Witness ==
    /\ returned.op = "read" /\ returned.status = "ok"
    /\ returned.key \in DOMAIN resultFiles
    /\ resultFiles[returned.key].kind = "legacy"
    /\ resultFiles[returned.key].expiration = {1}
    /\ returned.record.metadata.expiration = 1
    /\ returned.record.metadata.serializer = "json"
    /\ returned.record.metadata.prefect_version \in LegacyVersions
    /\ returned.record.result \in Values

\* C24 (FaultSpec): when the serializer cannot encode the object, a write
\* through the store and a write through a reference fail with a
\* SerializationError and write nothing to result storage or metadata
\* storage; the reference stays not persisted and keeps its cached object.
\* Nothing a backend holds was produced from an object that cannot be
\* encoded, and a call that failed this way performed no storage write.
C24_SerializationFaultWritesNothing ==
    /\ [][/\ /\ PersistResult("h1")
             /\ ~CanDump(frame["h1"].record.metadata.serializer,
                         frame["h1"].record.result)
             => /\ pc'["h1"] = "idle"
                /\ returned'.status = "SerializationError"
                /\ UNCHANGED <<resultFiles, metadataFiles>>
          /\ /\ PersistedResultPersist("h1")
             /\ frame["h1"].record.result = Unserializable
             => /\ pc'["h1"] = "idle"
                /\ returned'.status = "SerializationError"
                /\ UNCHANGED <<resultFiles, metadataFiles>>
                /\ ~ref'.persisted
                /\ ref'.cache = ref.cache /\ HasCachedObject(ref')]_vars
    /\ [](/\ returned.status = "SerializationError" => returned.accesses = {}
          /\ \A k \in DOMAIN resultFiles :
                IF resultFiles[k].kind = "record"
                THEN resultFiles[k].result.val # Unserializable
                ELSE resultFiles[k].val # Unserializable
          /\ DOMAIN metadataFiles \subseteq DOMAIN resultFiles)

\* a reference write given an object that cannot be encoded failed: nothing
\* is stored, the reference is not persisted and still holds its own object
C24_Witness ==
    /\ returned.op = "result_write" /\ returned.status = "SerializationError"
    /\ returned.written.result = Unserializable
    /\ ~ref.persisted /\ ref.cache = MaxVal
    /\ resultFiles = NoFiles /\ metadataFiles = NoFiles

\* references that differ from r in any of its fields
ReferencesLike(r) ==
    {[r EXCEPT !.storage_key = k, !.expiration = e, !.serializer_type = t,
               !.cache = c, !.persisted = b, !.should_cache_object = sc,
               !.storage_block = IF handles THEN DefaultStorage ELSE NoStorage,
               !.serializer = IF handles THEN r.serializer_type ELSE NoSerializer] :
       k \in {r.storage_key, NoneKey}, e \in Expirations, t \in SerializerTypes,
       c \in {NotSet, MaxVal}, b \in BOOLEAN, sc \in BOOLEAN, handles \in BOOLEAN}

Identity(r) ==
    <<r.type, r.serializer_type, r.storage_key, r.storage_block_id, r.expiration>>

\* C25 (ReferenceSpec): the reference held equals another PersistedResult
\* exactly when the two agree on type, serializer_type, storage_key,
\* storage_block_id and expiration, whatever their caches, persisted flags,
\* should-cache flags and storage and serializer handles; and no step of a
\* write, and no get answered from the cache, changes which references the
\* reference held is equal to.
C25_EqualityIgnoresTransientState ==
    /\ [](ref.type = "reference" =>
            \A other \in ReferencesLike(ref) :
               PersistedResultEq(ref, other) <=> Identity(ref) = Identity(other))
    /\ [][\/ \E obj \in Values \cup {NotSet} : PersistedResultWrite("h1", obj)
          \/ PersistedResultPersist("h1")
          \/ PersistedResultGet("h1", FALSE) /\ HasCachedObject(ref)
          => \A other \in ReferencesLike(ref) :
                PersistedResultEq(ref', other) <=> PersistedResultEq(ref, other)]_vars

\* a write has set the persisted flag and dropped the cache; the reference
\* still equals the one that was created
C25_Witness ==
    /\ returned.op = "result_write" /\ returned.accesses # {}
    /\ ref.persisted /\ ~HasCachedObject(ref)
    /\ PersistedResultEq(ref, [ref EXCEPT !.persisted = FALSE, !.cache = MaxVal])
    /\ ~PersistedResultEq(ref, [ref EXCEPT !.expiration = 1])

\* C26 (LoadedSpec): a write with no explicit object on a reference that is
\* not persisted, not serialize_to_none and holds no cached object fails at
\* once with a ValueError, with no storage access, no storage block resolved
\* and the reference and the storage unchanged; on a reference that is
\* persisted or serialize_to_none the same call returns normally at once and
\* changes nothing.
C26_WriteNeedsAnObject ==
    [][PersistedResultWrite("h1", NotSet) =>
          /\ /\ ~ref.persisted /\ ~ref.serialize_to_none /\ ref.cache = NotSet
             => /\ pc'["h1"] = "idle"
                /\ returned'.status = "ValueError"
                /\ returned'.accesses = {}
                /\ UNCHANGED <<ref, result_storage, resultFiles, metadataFiles>>
          /\ /\ ref.persisted \/ ref.serialize_to_none
             => /\ pc'["h1"] = "idle"
                /\ returned'.status = "ok"
                /\ returned'.accesses = {}
                /\ UNCHANGED <<ref, result_storage, resultFiles, metadataFiles>>]_vars

C26_Witness ==
    /\ returned.op = "result_write" /\ returned.status = "ValueError"
    /\ ref.type = "reference" /\ ~ref.persisted /\ ~ref.serialize_to_none
    /\ ref.cache = NotSet
    /\ ref.storage_block = NoStorage
    /\ resultFiles = NoFiles

C28_WrittenOnceUnderOverlap ==
    [][\A p \in Holders :
          PersistedResultPersist(p) /\ returned'.status = "ok" => ~ref.persisted]_vars

\* C29 (ReferenceSpec): after a successful write on a reference with caching
\* enabled, get() and get(ignore_cache=true) return equal values: the cached
\* object equals the object stored under the reference's storage_key, also
\* when the write was given an object other than the one cached at creation.
C29_CacheEqualsStored ==
    ref.type = "reference" /\ ref.persisted /\ ref.should_cache_object
    => /\ HasCachedObject(ref)
       /\ ref.storage_key \in DOMAIN resultFiles
       /\ Deserialize(resultFiles[ref.storage_key]).ok
       /\ Deserialize(resultFiles[ref.storage_key]).record.result = ref.cache

\* C30 (ForeignLockSpec): write and get of a reference reach storage through
\* an ad-hoc store without a lock manager.  They never wait for a lock, never
\* fail with the RuntimeError of a locked key and never touch the locks, also
\* when the creating store has a lock manager and the reference's storage_key
\* is locked by another holder: the storage step of a write then writes the
\* record, and that of a get reads what is stored.
C30_ReferenceIgnoresLocks ==
    /\ [](\A p \in Holders :
             frame[p].op \in {"result_write", "result_get"}
             => ~frame[p].waited /\ pc[p] # "read_wait")
    /\ [](returned.op \in {"result_write", "result_get"}
             => returned.status # "RuntimeError" /\ ~returned.waited)
    /\ [][PersistedResultWrite("h1", NotSet) \/ PersistedResultWrite("h1", MaxVal)
             \/ PersistedResultGet("h1", TRUE) \/ PersistedResultGet("h1", FALSE)
             \/ PersistedResultPersist("h1") \/ PersistedResultRead("h1")
          => locks' = locks]_vars
    /\ [][/\ config.lock_manager
          /\ IsLockHolder(ref.storage_key, "h2")
          => /\ PersistedResultPersist("h1")
                => /\ returned'.status = "ok"
                   /\ ref'.persisted
                   /\ resultFiles' # resultFiles \/ ref.storage_key \in DOMAIN resultFiles
             /\ PersistedResultRead("h1")
                => /\ pc'["h1"] = "idle"
                   /\ returned'.status = "ok" <=> ref.storage_key \in DOMAIN resultFiles]_vars

\* the store has a lock manager, another holder holds the lock on the
\* reference's storage_key, and the last call to return is a write of the
\* reference that has written it
C30_Witness ==
    /\ config.lock_manager
    /\ ref.type = "reference" /\ ref.persisted
    /\ IsLockHolder(ref.storage_key, "h2")
    /\ returned.op = "result_write" /\ returned.status = "ok" /\ returned.caller = "h1"
    /\ Access("result", "write", ref.storage_key) \in returned.accesses

\* caller p is in a read of key k, waiting for the lock
ReadWaiting(p, k) == pc[p] = "read_wait" /\ frame[p].op = "read" /\ frame[p].key = k

\* caller p is in a read that is past the lock
ReadRunning(p) == pc[p] \in {"read_resolve", "read_storage"} /\ frame[p].op = "read"

\* the record of key k is in the result storage
RecordPresent(k) == k \in DOMAIN resultFiles /\ Deserialize(resultFiles[k]).ok

\* the last call to return is a read of k by p that waited for the lock and
\* returned the record stored under k
ReadReturned(p, k) ==
    /\ returned.caller = p /\ returned.op = "read" /\ returned.key = k
    /\ returned.waited /\ returned.status = "ok"
    /\ RecordPresent(k) /\ returned.record = Deserialize(resultFiles[k]).record

\* C31 (FairSpec): liveness of read.  A read by a caller that does not hold
\* the lock waits with no timeout: it leaves its wait only when the key is
\* not locked.  Under fair scheduling, if the key is eventually unlocked for
\* good, a read that waits while the record is present eventually returns
\* the record.  A read by the lock holder never waits, and a read that is
\* past the lock always completes.
C31_ReadIsLive ==
    /\ [][\A p \in Holders :
             pc[p] = "read_wait" /\ pc'[p] # "read_wait" => ~IsLocked(frame[p].key)]_vars
    /\ [][\A p \in Holders, k \in UserKeys :
             Read(p, "store1", k) /\ IsLockHolder(k, p) => pc'[p] # "read_wait"]_vars
    /\ \A p \in Holders, k \in UserKeys :
          <>[](~IsLocked(k)) => ((ReadWaiting(p, k) /\ RecordPresent(k)) ~> ReadReturned(p, k))
    /\ \A p \in Holders : ReadRunning(p) ~> (pc[p] = "idle")

\* a read by a caller that does not hold the lock has gone through the wait
\* for the lock and returned the record stored under the key
C31_Witness ==
    \E p \in Holders, k \in UserKeys : ReadReturned(p, k)

=============================================================================
